---- MODULE Spec2Model ----
(***************************************************************************)
(* yetty-client: the base94 codec, the OSC frame builder and parser, the   *)
(* tmux DCS passthrough wrapper and the command dispatcher                 *)
(* (tools/yetty-client/core/base94.py, core/osc.py, main.py).              *)
(*                                                                         *)
(* Text is a sequence of code points, a byte string a sequence of          *)
(* integers 0..255.                                                        *)
(***************************************************************************)
EXTENDS Integers, Sequences, FiniteSets, TLC

VARIABLES
    fn,       \* library level: the function applied last ("none" before any)
    arg,      \* library level: the input the caller holds
    ret,      \* library level: what the last call returned
    dcs,      \* the multiplexer's control-string parser: [st, pos, out]
    tmux,     \* whether TMUX is in os.environ
    files,    \* the file system: file name -> the bytes of the file
    inv,      \* the command line of the last invocation
    stdout,   \* what the last invocation put on standard output
    stderr,   \* what the last invocation put on the error stream
    exit,     \* the exit status of the last invocation
    fwrites,  \* the files the last invocation wrote: <<name, bytes>>
    freads    \* the files the last invocation read: <<name, bytes>>

libVars == <<fn, arg, ret>>
cliVars == <<tmux, files, inv, stdout, stderr, exit, fwrites, freads>>
vars == <<fn, arg, ret, dcs, tmux, files, inv, stdout, stderr, exit, fwrites, freads>>

----------------------------------------------------------------------------
(* Bounds of the model *)

MaxLen == 3
MaxStrLen == 3

(* Code points the program names *)

ESC == 27
BEL == 7
CR == 13
LF == 10
SEMI == 59
RBRACKET == 93
BACKSLASH == 92
BASE == 33
RADIX == 94
VENDOR_ID == 99999

SeqsUpTo(S, n) == UNION {[1..k -> S] : k \in 0..n}

IsBytes(s) == \A i \in 1..Len(s) : s[i] \in 0..255

EndsWith(s, t) ==
    Len(s) >= Len(t) /\ SubSeq(s, Len(s) - Len(t) + 1, Len(s)) = t

StartsWith(s, t) == Len(s) >= Len(t) /\ SubSeq(s, 1, Len(t)) = t

DropFirst(s, n) == SubSeq(s, n + 1, Len(s))

DropLast(s, n) == SubSeq(s, 1, Len(s) - n)

----------------------------------------------------------------------------
(* core/base94.py *)

\* a slip: one character per byte, the byte added to the base
RECURSIVE encodeOneChar(_)
encodeOneChar(data) ==
    IF data = <<>> THEN <<>>
    ELSE <<BASE + Head(data)>> \o encodeOneChar(Tail(data))

\* a slip: the remainder comes first, the quotient second
RECURSIVE encodeLowFirst(_)
encodeLowFirst(data) ==
    IF data = <<>> THEN <<>>
    ELSE <<BASE + (Head(data) % RADIX), BASE + (Head(data) \div RADIX)>>
             \o encodeLowFirst(Tail(data))

RECURSIVE encode(_)
encode(data) ==
    IF data = <<>> THEN <<>>
    ELSE <<BASE + (Head(data) \div RADIX), BASE + (Head(data) % RADIX)>>
             \o encode(Tail(data))

\* a slip: while i + 2 < len(encoded), which drops the last pair
RECURSIVE decodeValuesShort(_)
decodeValuesShort(encoded) ==
    IF Len(encoded) < 3 THEN <<>>
    ELSE <<(encoded[1] - BASE) * RADIX + (encoded[2] - BASE)>>
             \o decodeValuesShort(SubSeq(encoded, 3, Len(encoded)))

\* the while loop of decode: one value per complete pair of characters
RECURSIVE decodeValues(_)
decodeValues(encoded) ==
    IF Len(encoded) < 2 THEN <<>>
    ELSE <<(encoded[1] - BASE) * RADIX + (encoded[2] - BASE)>>
             \o decodeValues(SubSeq(encoded, 3, Len(encoded)))

\* a slip: each value is cut down to a byte, nothing is raised
decodeMod256(encoded) ==
    LET result == decodeValues(encoded) IN
    [ok |-> TRUE, val |-> [i \in 1..Len(result) |-> result[i] % 256],
     exc |-> "none"]

\* bytes(result) raises ValueError unless every value is in range(256)
decode(encoded) ==
    LET result == decodeValues(encoded) IN
    IF IsBytes(result)
    THEN [ok |-> TRUE, val |-> result, exc |-> "none"]
    ELSE [ok |-> FALSE, val |-> <<>>, exc |-> "ValueError"]

\* text.encode('utf-8')
RECURSIVE utf8(_)
utf8(text) ==
    IF text = <<>> THEN <<>>
    ELSE LET c == Head(text) IN
         (IF c < 128 THEN <<c>>
          ELSE IF c < 2048 THEN <<192 + (c \div 64), 128 + (c % 64)>>
          ELSE IF c < 65536
          THEN <<224 + (c \div 4096), 128 + ((c \div 64) % 64), 128 + (c % 64)>>
          ELSE <<240 + (c \div 262144), 128 + ((c \div 4096) % 64),
                 128 + ((c \div 64) % 64), 128 + (c % 64)>>)
         \o utf8(Tail(text))

encode_string(text) == encode(utf8(text))

\* a slip: every byte is taken for a code point (latin-1)
Latin1Decode(data) == [ok |-> TRUE, text |-> data]

\* data.decode('utf-8'), strict: ok and the text, or UnicodeDecodeError
RECURSIVE Utf8Text(_)
Utf8Text(data) ==
    IF data = <<>> THEN <<>>
    ELSE LET b == Head(data)
             n == Len(data)
             cont(i) == i <= n /\ data[i] \in 128..191
         IN IF b < 128 THEN <<b>> \o Utf8Text(Tail(data))
            ELSE IF b \in 194..223 /\ cont(2)
            THEN <<(b - 192) * 64 + (data[2] - 128)>> \o Utf8Text(DropFirst(data, 2))
            ELSE IF /\ b \in 224..239 /\ cont(2) /\ cont(3)
                    /\ (b = 224 => data[2] >= 160)
                    /\ (b = 237 => data[2] <= 159)
            THEN <<(b - 224) * 4096 + (data[2] - 128) * 64 + (data[3] - 128)>>
                     \o Utf8Text(DropFirst(data, 3))
            ELSE IF /\ b \in 240..244 /\ cont(2) /\ cont(3) /\ cont(4)
                    /\ (b = 240 => data[2] >= 144)
                    /\ (b = 244 => data[2] <= 143)
            THEN <<(b - 240) * 262144 + (data[2] - 128) * 4096
                     + (data[3] - 128) * 64 + (data[4] - 128)>>
                     \o Utf8Text(DropFirst(data, 4))
            ELSE <<0 - 1>>

\* bytes below 128 are their own code points
Utf8Decode(data) ==
    IF \A i \in 1..Len(data) : data[i] < 128
    THEN [ok |-> TRUE, text |-> data]
    ELSE LET t == Utf8Text(data) IN
         IF t # <<>> /\ t[Len(t)] = 0 - 1
         THEN [ok |-> FALSE, text |-> <<>>]
         ELSE [ok |-> TRUE, text |-> t]

----------------------------------------------------------------------------
(* core/osc.py *)

\* str(n) of a non-negative int inside an f-string
RECURSIVE NatToStr(_)
NatToStr(n) ==
    IF n < 10 THEN <<48 + n>> ELSE NatToStr(n \div 10) \o <<48 + (n % 10)>>

\* str(n) of an int inside an f-string: a '-' before a negative one
IntToStr(n) == IF n < 0 THEN <<45>> \o NatToStr(0 - n) ELSE NatToStr(n)

\* a slip: nothing is doubled
NoDoubling(sequence) == sequence

\* sequence.replace('\033', '\033\033')
RECURSIVE DoubleEsc(_)
DoubleEsc(sequence) ==
    IF sequence = <<>> THEN <<>>
    ELSE (IF Head(sequence) = ESC THEN <<ESC, ESC>> ELSE <<Head(sequence)>>)
         \o DoubleEsc(Tail(sequence))

\* "\033Ptmux;"
TmuxPrefix == <<ESC, 80, 116, 109, 117, 120, SEMI>>

wrap_for_tmux(sequence) ==
    TmuxPrefix \o DoubleEsc(sequence) \o <<ESC, BACKSLASH>>

\* a slip: the environment is not looked at
AlwaysWrap(inside, sequence) == wrap_for_tmux(sequence)

\* inside: is_inside_tmux(), 'TMUX' in os.environ
maybe_wrap_for_tmux(inside, sequence) ==
    IF inside THEN wrap_for_tmux(sequence) ELSE sequence

\* a slip: the height is put before the width
create_sequenceHeightFirst(plugin, mode, x, y, w, h, payload) ==
    <<ESC, RBRACKET>> \o IntToStr(VENDOR_ID) \o <<SEMI>> \o plugin \o <<SEMI>>
        \o mode \o <<SEMI>> \o IntToStr(x) \o <<SEMI>> \o IntToStr(y) \o <<SEMI>>
        \o IntToStr(h) \o <<SEMI>> \o IntToStr(w) \o <<SEMI>>
        \o encode_string(payload) \o <<ESC, BACKSLASH>>

create_sequence(plugin, mode, x, y, w, h, payload) ==
    <<ESC, RBRACKET>> \o IntToStr(VENDOR_ID) \o <<SEMI>> \o plugin \o <<SEMI>>
        \o mode \o <<SEMI>> \o IntToStr(x) \o <<SEMI>> \o IntToStr(y) \o <<SEMI>>
        \o IntToStr(w) \o <<SEMI>> \o IntToStr(h) \o <<SEMI>>
        \o encode_string(payload) \o <<ESC, BACKSLASH>>

create_delete_sequence(plugin, instance_id) ==
    <<ESC, RBRACKET>> \o IntToStr(VENDOR_ID) \o <<SEMI>> \o plugin
        \o <<SEMI, 68, SEMI>> \o IntToStr(instance_id) \o <<ESC, BACKSLASH>>

\* a slip: the payload is put into the frame as it is
create_update_sequencePlain(plugin, instance_id, payload) ==
    <<ESC, RBRACKET>> \o IntToStr(VENDOR_ID) \o <<SEMI>> \o plugin
        \o <<SEMI, 85, SEMI>> \o IntToStr(instance_id) \o <<SEMI>>
        \o payload \o <<ESC, BACKSLASH>>

create_update_sequence(plugin, instance_id, payload) ==
    <<ESC, RBRACKET>> \o IntToStr(VENDOR_ID) \o <<SEMI>> \o plugin
        \o <<SEMI, 85, SEMI>> \o IntToStr(instance_id) \o <<SEMI>>
        \o encode_string(payload) \o <<ESC, BACKSLASH>>

create_query_sequence ==
    <<ESC, RBRACKET>> \o IntToStr(VENDOR_ID) \o <<SEMI, 63, SEMI, 81>>
        \o <<ESC, BACKSLASH>>

----------------------------------------------------------------------------
(* main.py: the frame parser of cmd_decode, and the frame run and dump build *)

\* open(input_file, 'r').read(): universal newlines turn "\r\n" and a lone
\* "\r" into "\n"
RECURSIVE ReadText(_)
ReadText(raw) ==
    IF \A i \in 1..Len(raw) : raw[i] # CR THEN raw
    ELSE IF Head(raw) = CR
         THEN <<LF>> \o ReadText(IF Len(raw) >= 2 /\ raw[2] = LF
                                 THEN DropFirst(raw, 2) ELSE Tail(raw))
         ELSE <<Head(raw)>> \o ReadText(Tail(raw))

\* content.rstrip('\r\n')
RECURSIVE RStripNewlines(_)
RStripNewlines(content) ==
    IF content # <<>> /\ content[Len(content)] \in {CR, LF}
    THEN RStripNewlines(DropLast(content, 1))
    ELSE content

\* a slip: 'if' for 'elif', ESC backslash is taken off after a BEL as well
StripTerminatorBoth(content) ==
    LET c == IF EndsWith(content, <<BEL>>) THEN DropLast(content, 1) ELSE content
    IN IF EndsWith(c, <<ESC, BACKSLASH>>) THEN DropLast(c, 2) ELSE c

\* one terminator: BEL, else ESC backslash, else nothing
StripTerminator(content) ==
    IF EndsWith(content, <<BEL>>) THEN DropLast(content, 1)
    ELSE IF EndsWith(content, <<ESC, BACKSLASH>>) THEN DropLast(content, 2)
    ELSE content

\* index of the first sep in s, 0 when there is none
RECURSIVE IndexOf(_, _)
IndexOf(s, sep) ==
    IF s = <<>> THEN 0
    ELSE IF Head(s) = sep THEN 1
    ELSE LET r == IndexOf(Tail(s), sep) IN IF r = 0 THEN 0 ELSE r + 1

\* a slip: content.split(';') with no bound
RECURSIVE SplitAll(_, _, _)
SplitAll(s, sep, maxsplit) ==
    LET i == IndexOf(s, sep) IN
    IF i = 0 THEN <<s>>
    ELSE <<SubSeq(s, 1, i - 1)>> \o SplitAll(DropFirst(s, i), sep, maxsplit)

\* s.split(sep, maxsplit)
RECURSIVE Split(_, _, _)
Split(s, sep, maxsplit) ==
    LET i == IndexOf(s, sep) IN
    IF maxsplit = 0 \/ i = 0 THEN <<s>>
    ELSE <<SubSeq(s, 1, i - 1)>> \o Split(DropFirst(s, i), sep, maxsplit - 1)

\* cmd_decode from the read of the file to the vendor check:
\* status "ok", or the ClickException that is raised
ParseFrame(text) ==
    LET stripped == StripTerminator(RStripNewlines(ReadText(text)))
        prefixed == StartsWith(stripped, <<ESC, RBRACKET>>)
        bare == StartsWith(stripped, <<RBRACKET>>)
        content == IF prefixed THEN DropFirst(stripped, 2)
                   ELSE IF bare THEN DropFirst(stripped, 1)
                   ELSE stripped
        parts == Split(content, SEMI, 7)
    IN IF ~prefixed /\ ~bare
       THEN [status |-> "no_prefix", content |-> content, parts |-> <<>>]
       ELSE IF Len(parts) < 8
       THEN [status |-> "few_parts", content |-> content, parts |-> parts]
       ELSE IF parts[1] # IntToStr(VENDOR_ID)
       THEN [status |-> "vendor", content |-> content, parts |-> parts]
       ELSE [status |-> "ok", content |-> content, parts |-> parts]

\* with open(input_file, 'r') as f: content = f.read(), then the parse;
\* status "unicode" stands for the UnicodeDecodeError of the read
ParseFile(data) ==
    LET rd == Utf8Decode(data) IN
    IF rd.ok THEN ParseFrame(rd.text)
    ELSE [status |-> "unicode", content |-> <<>>, parts |-> <<>>]

\* a slip: the payload is put into the frame as it is
RawBytesFrame(plugin, mode, x, y, w, h, payload_bytes) ==
    <<ESC, RBRACKET>> \o IntToStr(VENDOR_ID) \o <<SEMI>> \o plugin \o <<SEMI>>
        \o mode \o <<SEMI>> \o IntToStr(x) \o <<SEMI>> \o IntToStr(y) \o <<SEMI>>
        \o IntToStr(w) \o <<SEMI>> \o IntToStr(h) \o <<SEMI>>
        \o payload_bytes \o <<ESC, BACKSLASH>>

\* cmd_run, payload_bytes is not None: the frame around base94.encode
RunBytesFrame(plugin, mode, x, y, w, h, payload_bytes) ==
    <<ESC, RBRACKET>> \o IntToStr(VENDOR_ID) \o <<SEMI>> \o plugin \o <<SEMI>>
        \o mode \o <<SEMI>> \o IntToStr(x) \o <<SEMI>> \o IntToStr(y) \o <<SEMI>>
        \o IntToStr(w) \o <<SEMI>> \o IntToStr(h) \o <<SEMI>>
        \o encode(payload_bytes) \o <<ESC, BACKSLASH>>

\* cmd_dump, payload_bytes is not None
DumpBytesFrame(plugin, mode, x, y, w, h, payload_bytes) ==
    <<ESC, RBRACKET>> \o IntToStr(VENDOR_ID) \o <<SEMI>> \o plugin \o <<SEMI>>
        \o mode \o <<SEMI>> \o IntToStr(x) \o <<SEMI>> \o IntToStr(y) \o <<SEMI>>
        \o IntToStr(w) \o <<SEMI>> \o IntToStr(h) \o <<SEMI>>
        \o encode(payload_bytes) \o <<ESC, BACKSLASH>>

----------------------------------------------------------------------------
(* The codec applied to bounded inputs *)

ByteSample == {0, 26, 27, 94, 120, 255}
CharSample == {32, 33, 59, 126, 127}

ByteSeqs == {<<b>> : b \in 0..255} \cup SeqsUpTo(ByteSample, MaxLen)
StrInputs == SeqsUpTo(CharSample, MaxStrLen)

\* two pairs of '!', '#', 'd', '~'
PairInputs == [1..4 -> {33, 35, 100, 126}]

\* "image", "A", "R"
TextImage == <<105, 109, 97, 103, 101>>
ModeA == <<65>>
ModeR == <<82>>

\* None
NoArg == <<0 - 1>>
NoInv == [cmd |-> "none"]

CliIdle ==
    /\ tmux = FALSE
    /\ files = <<>>
    /\ inv = NoInv
    /\ stdout = <<>>
    /\ stderr = <<>>
    /\ exit = 0
    /\ fwrites = <<>>
    /\ freads = <<>>

DcsIdle == dcs = [st |-> "idle", pos |-> 0, out |-> <<>>]

CodecInit ==
    /\ fn = "none"
    /\ arg \in ByteSeqs \cup StrInputs \cup PairInputs
    /\ ret = <<>>
    /\ DcsIdle
    /\ CliIdle

\* encode(data) on a bytes object
DoEncode ==
    /\ fn = "none"
    /\ IsBytes(arg)
    /\ fn' = "encode"
    /\ ret' = encode(arg)
    /\ UNCHANGED <<arg, dcs, cliVars>>

\* decode(s) on a string the caller holds
DoDecode ==
    /\ fn = "none"
    /\ fn' = "decode"
    /\ ret' = decode(arg)
    /\ UNCHANGED <<arg, dcs, cliVars>>

\* decode applied to what encode returned
DoDecodeEncoded ==
    /\ fn = "encode"
    /\ fn' = "decode_encoded"
    /\ ret' = decode(ret)
    /\ UNCHANGED <<arg, dcs, cliVars>>

CodecNext == DoEncode \/ DoDecode \/ DoDecodeEncoded

SpecCodec == CodecInit /\ [][CodecNext]_vars

\* C1: decoding what encode returned gives back the bytes that were encoded,
\* for the empty sequence, each single byte and longer sequences.
C1_RoundTrip ==
    fn = "decode_encoded" => (ret.ok /\ ret.val = arg)

C1_Witness ==
    /\ fn = "decode_encoded"
    /\ Len(arg) >= 2
    /\ arg[1] = 255
    /\ arg[2] = 0

\* C3: encode returns twice as many characters as it was given bytes, each
\* of them in '!' (33) .. '~' (126).
C3_EncodeShape ==
    fn = "encode" =>
        /\ Len(ret) = 2 * Len(arg)
        /\ \A i \in 1..Len(ret) : ret[i] \in 33..126

C3_Witness ==
    /\ fn = "encode"
    /\ arg = <<255>>
    /\ ret = <<35, 100>>

\* C4: decode raises on every input of odd length and on every input with
\* a character outside '!'..'~'.
C4_DecodeRejects ==
    (/\ fn = "decode"
     /\ \/ Len(arg) % 2 = 1
        \/ \E i \in 1..Len(arg) : arg[i] \notin 33..126)
    => ~ret.ok

----------------------------------------------------------------------------
(* The multiplexer wrapper, and the multiplexer's parser run over its output *)

TmuxChars == {ESC, BACKSLASH, RBRACKET, 65}

TmuxInputs ==
    SeqsUpTo(TmuxChars, MaxLen)
        \cup {create_query_sequence,
              create_sequence(TextImage, ModeR, 0, 0, 40, 20, <<ESC, 0, 97>>),
              create_delete_sequence(TextImage, 1),
              create_update_sequence(TextImage, 1, <<ESC>>)}

TmuxInit ==
    /\ fn = "none"
    /\ arg \in TmuxInputs
    /\ ret = <<>>
    /\ DcsIdle
    /\ CliIdle

DoWrap ==
    /\ fn = "none"
    /\ fn' = "wrap"
    /\ ret' = wrap_for_tmux(arg)
    /\ UNCHANGED <<arg, dcs, cliVars>>

\* the multiplexer has read "ESC P tmux;" and starts to collect the string
DcsEnter ==
    /\ fn = "wrap"
    /\ dcs.st = "idle"
    /\ Len(ret) >= Len(TmuxPrefix)
    /\ SubSeq(ret, 1, Len(TmuxPrefix)) = TmuxPrefix
    /\ dcs' = [st |-> "collect", pos |-> Len(TmuxPrefix) + 1, out |-> <<>>]
    /\ UNCHANGED <<libVars, cliVars>>

\* one byte: ESC enters the escape state; there '\' terminates and any
\* other byte (ESC too) is collected
DcsStep ==
    /\ dcs.st \in {"collect", "esc"}
    /\ dcs.pos <= Len(ret)
    /\ LET c == ret[dcs.pos] IN
       dcs' = [pos |-> dcs.pos + 1,
               st |-> IF dcs.st = "collect"
                      THEN (IF c = ESC THEN "esc" ELSE "collect")
                      ELSE (IF c = BACKSLASH THEN "done" ELSE "collect"),
               out |-> IF dcs.st = "collect"
                       THEN (IF c = ESC THEN dcs.out ELSE Append(dcs.out, c))
                       ELSE (IF c = BACKSLASH THEN dcs.out ELSE Append(dcs.out, c))]
    /\ UNCHANGED <<libVars, cliVars>>

TmuxNext == DoWrap \/ DcsEnter \/ DcsStep

SpecTmux == TmuxInit /\ [][TmuxNext]_vars

\* C5: wrap_for_tmux(s) is ESC 'P' 'tmux;', then s with each ESC written
\* twice and every other character as it was, then ESC '\'.
C5_WrapShape ==
    fn = "wrap" =>
        LET n == Len(ret)
            mid == SubSeq(ret, 8, n - 2)
            escBefore(i) == Cardinality({j \in 1..(i - 1) : arg[j] = 27})
        IN /\ n >= 9
           /\ SubSeq(ret, 1, 7) = <<27, 80, 116, 109, 117, 120, 59>>
           /\ SubSeq(ret, n - 1, n) = <<27, 92>>
           /\ Len(mid) = Len(arg) + escBefore(Len(arg) + 1)
           /\ \A i \in 1..Len(arg) :
                 /\ mid[i + escBefore(i)] = arg[i]
                 /\ arg[i] = 27 => mid[i + escBefore(i) + 1] = 27

C5_Witness ==
    /\ fn = "wrap"
    /\ arg = <<65, 27, 27>>
    /\ ret = <<27, 80, 116, 109, 117, 120, 59, 65, 27, 27, 27, 27, 27, 92>>

\* C6: the multiplexer's parser, run over the wrapped frame, stops at the
\* last two bytes of the envelope and nowhere before, and has then
\* collected exactly the frame that was wrapped.
C6_Transparent ==
    /\ dcs.st = "done" => (dcs.out = arg /\ dcs.pos = Len(ret) + 1)
    /\ (dcs.st \in {"collect", "esc"} /\ dcs.pos > Len(ret)) => FALSE

C6_Witness ==
    /\ dcs.st = "done"
    /\ arg = create_sequence(TextImage, ModeR, 0, 0, 40, 20, <<ESC, 0, 97>>)
    /\ dcs.out[1] = 27
    /\ dcs.out[Len(dcs.out)] = 92

----------------------------------------------------------------------------
(* Frames built by the library and by run, then parsed as cmd_decode does *)

MaxPayload == 2

\* "image", "a", "", "a;b", "a\r", "]" ESC BEL LF
PluginStrs ==
    {TextImage, <<97>>, <<>>, <<97, SEMI, 98>>, <<97, CR>>, <<RBRACKET, ESC, BEL, LF>>}

\* 0, ESC, ';', e-acute, the euro sign
TextSample == {0, 27, 59, 233, 8364}

Positions == {<<0, 0, 40, 20>>, <<0 - 5, 12, 1, 100>>, <<40, 0 - 5, 7, 0>>}

BuildInputs ==
    [kind : {"text"}, plugin : PluginStrs, mode : {ModeA, ModeR},
     pos : Positions, payload : SeqsUpTo(TextSample, MaxPayload), id : {0}]
    \cup
    [kind : {"bytes"}, plugin : PluginStrs, mode : {ModeA, ModeR},
     pos : Positions, payload : SeqsUpTo(ByteSample, MaxPayload), id : {0}]

\* the instances a frame is about
InstanceIds == {0, 1, 42}

\* what create_update_sequence, create_delete_sequence and
\* create_query_sequence are given: mode and pos are not among it
OtherInputs ==
    [kind : {"update"}, plugin : PluginStrs, mode : {ModeR},
     pos : {<<0, 0, 40, 20>>}, payload : SeqsUpTo(TextSample, MaxPayload),
     id : InstanceIds]
    \cup
    [kind : {"delete"}, plugin : PluginStrs, mode : {ModeR},
     pos : {<<0, 0, 40, 20>>}, payload : {<<>>}, id : InstanceIds]
    \cup
    [kind : {"query"}, plugin : {<<>>}, mode : {ModeR},
     pos : {<<0, 0, 40, 20>>}, payload : {<<>>}, id : {0}]

\* file contents: prefix, k fields after the vendor id, terminator
RECURSIVE Fields(_, _)
Fields(k, last) ==
    IF k = 0 THEN <<>>
    ELSE IF k = 1 THEN <<SEMI>> \o last
    ELSE <<SEMI, 97>> \o Fields(k - 1, last)

\* what stands between prefix and terminator: the vendor id, also one
\* behind a ']', and k fields, the last of them also one that ends with a
\* BEL or with ESC backslash
RawBodies ==
    {vend \o Fields(k, last) :
        vend \in {IntToStr(VENDOR_ID), IntToStr(9999),
                  <<RBRACKET>> \o IntToStr(VENDOR_ID)},
        k \in 0..8,
        last \in {<<33, 33>>, <<33, SEMI>>, <<SEMI, SEMI, 34, SEMI>>,
                  <<33, 33, BEL>>, <<33, ESC, BACKSLASH>>}}

RawPrefixes == {<<ESC, RBRACKET>>, <<RBRACKET>>, <<>>}

RawTerminators == {<<ESC, BACKSLASH>>, <<BEL>>, <<>>, <<ESC, BACKSLASH, CR, LF>>}

RawContents ==
    {pre \o body \o term :
        pre \in RawPrefixes, body \in RawBodies, term \in RawTerminators}

RawInputs ==
    [kind : {"raw"}, plugin : {<<>>}, mode : {ModeR}, pos : {<<0, 0, 40, 20>>},
     payload : RawContents, id : {0}]

\* create_sequence("shader", "R", 0, 0, 40, 20, "test")
ScenarioInput ==
    [kind |-> "text", plugin |-> <<115, 104, 97, 100, 101, 114>>, mode |-> ModeR,
     pos |-> <<0, 0, 40, 20>>, payload |-> <<116, 101, 115, 116>>, id |-> 0]

FrameInit ==
    /\ fn = "none"
    /\ arg \in BuildInputs \cup RawInputs \cup {ScenarioInput} \cup OtherInputs
    /\ ret = [frame |-> <<>>]
    /\ DcsIdle
    /\ CliIdle

DoCreateSequence ==
    /\ fn = "none"
    /\ arg.kind = "text"
    /\ fn' = "built"
    /\ ret' = [frame |-> create_sequence(arg.plugin, arg.mode, arg.pos[1],
                    arg.pos[2], arg.pos[3], arg.pos[4], arg.payload)]
    /\ UNCHANGED <<arg, dcs, cliVars>>

DoRunBytesFrame ==
    /\ fn = "none"
    /\ arg.kind = "bytes"
    /\ fn' = "built"
    /\ ret' = [frame |-> RunBytesFrame(arg.plugin, arg.mode, arg.pos[1],
                    arg.pos[2], arg.pos[3], arg.pos[4], arg.payload)]
    /\ UNCHANGED <<arg, dcs, cliVars>>

DoCreateUpdate ==
    /\ fn = "none"
    /\ arg.kind = "update"
    /\ fn' = "built"
    /\ ret' = [frame |-> create_update_sequence(arg.plugin, arg.id, arg.payload)]
    /\ UNCHANGED <<arg, dcs, cliVars>>

DoCreateDelete ==
    /\ fn = "none"
    /\ arg.kind = "delete"
    /\ fn' = "built"
    /\ ret' = [frame |-> create_delete_sequence(arg.plugin, arg.id)]
    /\ UNCHANGED <<arg, dcs, cliVars>>

DoCreateQuery ==
    /\ fn = "none"
    /\ arg.kind = "query"
    /\ fn' = "built"
    /\ ret' = [frame |-> create_query_sequence]
    /\ UNCHANGED <<arg, dcs, cliVars>>

\* a file that holds some other text
DoLoadRaw ==
    /\ fn = "none"
    /\ arg.kind = "raw"
    /\ fn' = "loaded"
    /\ ret' = [frame |-> arg.payload]
    /\ UNCHANGED <<arg, dcs, cliVars>>

\* the frame written to a file, then cmd_decode up to
\* base94.decode(encoded_payload)
DoParseFrame ==
    /\ fn \in {"built", "loaded"}
    /\ fn' = IF fn = "loaded" THEN "parsed_raw"
             ELSE IF arg.kind \in {"text", "bytes"} THEN "parsed"
             ELSE "parsed_other"
    /\ LET file == utf8(ret.frame)
           p == ParseFile(file) IN
       ret' = [frame |-> ret.frame, p |-> p,
               dec |-> IF p.status = "ok" THEN decode(p.parts[8])
                       ELSE [ok |-> FALSE, val |-> <<>>, exc |-> "not_reached"]]
    /\ UNCHANGED <<arg, dcs, cliVars>>

FrameNext ==
    \/ DoCreateSequence \/ DoRunBytesFrame \/ DoCreateUpdate \/ DoCreateDelete
    \/ DoCreateQuery \/ DoLoadRaw \/ DoParseFrame

SpecFrame == FrameInit /\ [][FrameNext]_vars

\* the integer a decimal numeral denotes
RECURSIVE NumeralValue(_)
NumeralValue(s) ==
    IF s = <<>> THEN 0
    ELSE IF Head(s) = 45 THEN 0 - NumeralValue(Tail(s))
    ELSE 10 * NumeralValue(DropLast(s, 1)) + (s[Len(s)] - 48)

Recovered ==
    /\ ret.p.status = "ok"
    /\ ret.p.parts[2] = arg.plugin
    /\ ret.p.parts[3] = arg.mode
    /\ \A i \in 1..4 :
          /\ ret.p.parts[3 + i] = IntToStr(arg.pos[i])
          /\ NumeralValue(ret.p.parts[3 + i]) = arg.pos[i]
    /\ ret.dec.ok
    /\ ret.dec.val = IF arg.kind = "bytes" THEN arg.payload ELSE utf8(arg.payload)

\* C2 as stated: a built frame, parsed as the decode command parses it,
\* gives back plugin name, mode, x, y, w, h and payload bytes, for every
\* plugin name.
C2_RoundTripAnyPlugin == fn = "parsed" => Recovered

\* C2 amended: the same, for every plugin name that contains neither ';'
\* nor a carriage return.
C2_RoundTrip ==
    (/\ fn = "parsed"
     /\ \A i \in 1..Len(arg.plugin) : arg.plugin[i] \notin {59, 13})
    => Recovered

C2_Witness ==
    /\ fn = "parsed"
    /\ arg.kind = "bytes"
    /\ arg.plugin = <<93, 27, 7, 10>>
    /\ arg.payload = <<26, 27>>
    /\ arg.pos[1] = 0 - 5
    /\ ret.p.parts[8] = <<33, 59, 33, 60>>
    /\ ret.dec.val = <<26, 27>>

\* the fields joined by ';'
RECURSIVE JoinSemi(_)
JoinSemi(parts) ==
    IF Len(parts) = 0 THEN <<>>
    ELSE IF Len(parts) = 1 THEN parts[1]
    ELSE parts[1] \o <<59>> \o JoinSemi(Tail(parts))

\* C7: the parser splits the content at its first 7 ';' and no further:
\* at most 8 fields, none of fields 1..7 holds a ';', the fields joined by
\* ';' are the content again, so field 8 is the whole remainder with
\* every ';' of the payload in it.
C7_BoundedSplit ==
    (fn \in {"parsed", "parsed_raw"} /\ ret.p.status # "no_prefix") =>
        LET parts == ret.p.parts IN
        /\ Len(parts) \in 1..8
        /\ JoinSemi(parts) = ret.p.content
        /\ \A i \in 1..Len(parts) :
              i # 8 => \A j \in 1..Len(parts[i]) : parts[i][j] # 59

C7_Witness ==
    /\ fn = "parsed_raw"
    /\ ret.p.status = "ok"
    /\ ret.p.parts[8] = <<59, 59, 34, 59>>

----------------------------------------------------------------------------
(* plugins/: the producers run and dump invoke *)

\* "python", "shadertoy", "shader", "Image"
TextPython == <<112, 121, 116, 104, 111, 110>>
TextShadertoy == <<115, 104, 97, 100, 101, 114, 116, 111, 121>>
TextShader == <<115, 104, 97, 100, 101, 114>>
TextImageUpper == <<73, 109, 97, 103, 101>>

\* "-", "inline:", ".osc", "--channel", "=", " "
Dash == <<45>>
InlineTag == <<105, 110, 108, 105, 110, 101, 58>>
OscSuffix == <<46, 111, 115, 99>>

\* the working directory, "/w"
Cwd == <<47, 119>>

Exists(fs, name) == name \in DOMAIN fs

\* str(Path(p).absolute()), Path(p).resolve() of a plain relative name
AbsolutePath(name) ==
    IF StartsWith(name, <<47>>) THEN name
    ELSE IF name = <<>> THEN Cwd
    ELSE Cwd \o <<47>> \o name

Produced(payload, payload_bytes, plugin_name, plugin_args, reads) ==
    [status |-> "ok", msg |-> "", payload |-> payload,
     payload_bytes |-> payload_bytes, plugin_name |-> plugin_name,
     plugin_args |-> plugin_args, reads |-> reads, warn |-> <<>>,
     loop |-> NoArg]

Failed(status, msg) ==
    [status |-> status, msg |-> msg, payload |-> NoArg, payload_bytes |-> NoArg,
     plugin_name |-> NoArg, plugin_args |-> NoArg, reads |-> <<>>,
     warn |-> <<>>, loop |-> NoArg]

\* plugins/image.py
image(fs, pin) ==
    IF pin.input = NoArg THEN Failed("UsageError", "Missing option '--input'")
    ELSE IF pin.input = Dash
    THEN Produced(NoArg, pin.stdin, TextImage, NoArg, <<>>)
    ELSE IF ~Exists(fs, pin.input) THEN Failed("Uncaught", "FileNotFoundError")
    ELSE Produced(NoArg, fs[pin.input], TextImage, NoArg,
                  <<<<pin.input, fs[pin.input]>>>>)

\* plugins/python.py
python(fs, pin) ==
    IF pin.input = NoArg /\ pin.inline = NoArg
    THEN Failed("UsageError", "Either --input or --inline must be specified")
    ELSE IF pin.input \notin {NoArg, <<>>} /\ pin.inline \notin {NoArg, <<>>}
    THEN Failed("UsageError", "Cannot use both --input and --inline")
    ELSE IF pin.inline \notin {NoArg, <<>>}
    THEN Produced(InlineTag \o pin.inline, NoArg, TextPython, NoArg, <<>>)
    ELSE IF pin.input = Dash
    THEN LET rd == Utf8Decode(pin.stdin) IN
         IF rd.ok THEN Produced(InlineTag \o rd.text, NoArg, TextPython, NoArg, <<>>)
         ELSE Failed("Uncaught", "UnicodeDecodeError")
    ELSE IF pin.input = NoArg THEN Failed("Uncaught", "TypeError")
    ELSE IF pin.input # <<>> /\ ~Exists(fs, pin.input)
    THEN Failed("ClickException", "File not found")
    ELSE Produced(AbsolutePath(pin.input), NoArg, TextPython, NoArg, <<>>)

\* the "--channelN=<resolved path>" words of shadertoy, joined by ' '
RECURSIVE ChannelArgs(_, _)
ChannelArgs(channels, k) ==
    IF k > Len(channels) THEN <<>>
    ELSE LET rest == ChannelArgs(channels, k + 1)
             word == <<45, 45, 99, 104, 97, 110, 110, 101, 108>> \o <<48 + (k - 1), 61>>
                         \o AbsolutePath(channels[k])
         IN IF channels[k] \in {NoArg, <<>>} THEN rest
            ELSE IF rest = <<>> THEN word
            ELSE word \o <<32>> \o rest

\* plugins/shadertoy.py
shadertoy(fs, pin) ==
    IF pin.input = NoArg THEN Failed("UsageError", "Missing option '--input'")
    ELSE IF pin.input # Dash /\ ~Exists(fs, pin.input)
    THEN Failed("Uncaught", "FileNotFoundError")
    ELSE LET data == IF pin.input = Dash THEN pin.stdin ELSE fs[pin.input]
             rd == Utf8Decode(data)
             reads == IF pin.input = Dash THEN <<>> ELSE <<<<pin.input, data>>>>
         IN IF ~rd.ok THEN Failed("Uncaught", "UnicodeDecodeError")
            ELSE Produced(IF pin.input = Dash THEN rd.text ELSE ReadText(rd.text),
                          NoArg, TextShader, ChannelArgs(pin.channels, 1), reads)

\* "thorvg", "video", "ymery", "svg", "lottie", "yaml"
TextThorvg == <<116, 104, 111, 114, 118, 103>>
TextVideo == <<118, 105, 100, 101, 111>>
TextYmery == <<121, 109, 101, 114, 121>>
TextSvg == <<115, 118, 103>>
TextLottie == <<108, 111, 116, 116, 105, 101>>
TextYaml == <<121, 97, 109, 108>>

\* the last component of a path
RECURSIVE BaseName(_)
BaseName(name) ==
    LET i == IndexOf(name, 47) IN
    IF i = 0 THEN name ELSE BaseName(DropFirst(name, i))

\* the position of the last '.' of a name, 0 when it has none
RECURSIVE LastDot(_)
LastDot(name) ==
    IF name = <<>> THEN 0
    ELSE IF name[Len(name)] = 46 THEN Len(name)
    ELSE LastDot(DropLast(name, 1))

\* Path(name).suffix: from the last '.' of the last component, '' when
\* that '.' starts or ends the component
Suffix(name) ==
    LET b == BaseName(name)
        i == LastDot(b)
    IN IF i > 1 /\ i < Len(b) THEN DropFirst(b, i - 1) ELSE <<>>

\* str.lower() of text in ASCII
Lower(s) == [i \in 1..Len(s) |-> IF s[i] \in 65..90 THEN s[i] + 32 ELSE s[i]]

\* the characters str.strip() takes off
Whitespace ==
    (9..13) \cup (28..32) \cup {133, 160, 5760, 8232, 8233, 8239, 8287, 12288}
    \cup (8192..8202)

\* content.strip()
RECURSIVE Strip(_)
Strip(s) ==
    IF s = <<>> THEN s
    ELSE IF Head(s) \in Whitespace THEN Strip(Tail(s))
    ELSE IF s[Len(s)] \in Whitespace THEN Strip(DropLast(s, 1))
    ELSE s

\* t in s
RECURSIVE Contains(_, _)
Contains(s, t) ==
    IF Len(s) < Len(t) THEN FALSE
    ELSE StartsWith(s, t) \/ Contains(Tail(s), t)

\* s[:n]
Take(s, n) == SubSeq(s, 1, IF Len(s) < n THEN Len(s) ELSE n)

\* thorvg looks for '<?xml' in stripped[:100]
SniffWindow == 100

\* a slip: the type is told by the first character alone
SniffFirstChar(content) ==
    LET stripped == Strip(content) IN
    IF StartsWith(stripped, <<60>>) THEN TextSvg
    ELSE IF StartsWith(stripped, <<123>>) THEN TextLottie
    ELSE TextYaml

\* thorvg: the type told from the content
Sniff(content) ==
    LET stripped == Strip(content) IN
    IF StartsWith(stripped, <<60>>)
       \/ Contains(Take(stripped, SniffWindow), <<60, 63, 120, 109, 108>>)
    THEN TextSvg
    ELSE IF StartsWith(stripped, <<123>>) THEN TextLottie
    ELSE TextYaml

\* thorvg: the type of the file given with --input
DetectType(name, content) ==
    LET suffix == Lower(Suffix(name)) IN
    IF suffix = <<46, 115, 118, 103>> THEN TextSvg
    ELSE IF suffix \in { <<46, 106, 115, 111, 110>>, <<46, 108, 111, 116, 116, 105, 101>> } THEN TextLottie
    ELSE IF suffix \in { <<46, 121, 97, 109, 108>>, <<46, 121, 109, 108>> } THEN TextYaml
    ELSE Sniff(content)

\* the options of thorvg that were given
ThorvgSources(pin) == <<pin.svg, pin.lottie, pin.yaml, pin.input>>

Provided(sources) == Cardinality({i \in 1..Len(sources) : sources[i] # NoArg})

\* a slip: two sources are let through, the first one wins
ProvidedTooManyNever(provided) == FALSE

\* thorvg: provided > 1
ProvidedTooMany(provided) == provided > 1

\* plugins/thorvg.py
thorvg(fs, pin) ==
    LET sources == ThorvgSources(pin)
        provided == Provided(sources)
    IN
    IF \E i \in 1..4 : sources[i] # NoArg /\ ~Exists(fs, sources[i])
    THEN Failed("UsageError", "Path does not exist")
    ELSE IF provided = 0
    THEN Failed("ClickException",
                "One of --svg, --lottie, --yaml, or --input is required")
    ELSE IF ProvidedTooMany(provided)
    THEN Failed("ClickException", "Only one source file option can be specified")
    ELSE
    LET chosen == sources[CHOOSE i \in 1..4 :
                             /\ sources[i] # NoArg
                             /\ \A j \in 1..(i - 1) : sources[j] = NoArg]
        rd == Utf8Decode(fs[chosen])
        content == ReadText(rd.text)
        content_type == IF pin.svg # NoArg THEN TextSvg
                        ELSE IF pin.lottie # NoArg THEN TextLottie
                        ELSE IF pin.yaml # NoArg THEN TextYaml
                        ELSE DetectType(chosen, content)
    IN IF ~rd.ok THEN Failed("Uncaught", "UnicodeDecodeError")
       ELSE Produced(content_type \o <<LF>> \o content, NoArg, TextThorvg, NoArg,
                     <<<<chosen, fs[chosen]>>>>)

\* video.py: VIDEO_EXTENSIONS
VIDEO_EXTENSIONS ==
    { <<46, 109, 112, 52>>, <<46, 109, 52, 118>>, <<46, 109, 111, 118>>, <<46, 119, 101, 98, 109>>, <<46, 109, 107, 118>>, <<46, 97, 118, 105>>, <<46, 102, 108, 118>>,
      <<46, 103, 105, 102>>, <<46, 109, 112, 103>>, <<46, 109, 112, 101, 103>>, <<46, 116, 115>>, <<46, 109, 116, 115>>, <<46, 111, 103, 118>>, <<46, 111, 103, 103>> }

\* a slip: nothing is checked about the bytes read
EmptyVideoNever(video_data) == FALSE

\* video: len(video_data) == 0
EmptyVideo(video_data) == Len(video_data) = 0

\* plugins/video.py
video(fs, pin) ==
    IF pin.file # NoArg /\ ~Exists(fs, pin.file)
    THEN Failed("UsageError", "Path does not exist")
    ELSE
    LET source == IF pin.file \notin {NoArg, <<>>} THEN pin.file ELSE pin.input IN
    IF source \in {NoArg, <<>>}
    THEN Failed("ClickException",
                "Please provide a video file or use -i for stdin")
    ELSE IF source # Dash /\ ~Exists(fs, source)
    THEN Failed("ClickException", "File not found")
    ELSE
    LET video_data == IF source = Dash THEN pin.stdin ELSE fs[source]
        reads == IF source = Dash THEN <<>> ELSE <<<<source, fs[source]>>>>
        ext == Lower(Suffix(source))
        warn == IF source # Dash /\ ext \notin VIDEO_EXTENSIONS
                THEN <<[k |-> "echo", msg |-> "Warning: Unknown extension",
                        n |-> 0, data |-> ext]>>
                ELSE <<>>
    IN IF EmptyVideo(video_data)
       THEN [Failed("ClickException", "Empty video data") EXCEPT
                !.reads = reads, !.warn = warn]
       ELSE [Produced(NoArg, video_data, TextVideo, NoArg, reads) EXCEPT
                !.warn = warn, !.loop = pin.loop]

\* the "-p <path>" words of ymery
RECURSIVE LayoutArgs(_)
LayoutArgs(layouts) ==
    IF layouts = <<>> THEN <<>>
    ELSE <<45, 112, 32>> \o Head(layouts) \o <<32>> \o LayoutArgs(Tail(layouts))

\* a slip: "layouts=<path>" and "main=<main>" words
ymeryKeyValue(fs, pin) ==
    IF pin.layouts = <<>> THEN Failed("UsageError", "Missing option '--layouts-path'")
    ELSE IF pin.main = NoArg THEN Failed("UsageError", "Missing option '--main'")
    ELSE Produced(<<>>, NoArg, TextYmery,
                  <<108, 97, 121, 111, 117, 116, 115, 61>> \o Head(pin.layouts) \o <<32, 109, 97, 105, 110, 61>> \o pin.main, <<>>)

\* plugins/ymery.py
ymery(fs, pin) ==
    IF pin.layouts = <<>> THEN Failed("UsageError", "Missing option '--layouts-path'")
    ELSE IF pin.main = NoArg THEN Failed("UsageError", "Missing option '--main'")
    ELSE Produced(<<>>, NoArg, TextYmery,
                  LayoutArgs(pin.layouts) \o <<45, 109, 32>> \o pin.main, <<>>)

\* "quiet": a producer of the registry that sets nothing in ctx.obj
TextQuiet == <<113, 117, 105, 101, 116>>

quiet(fs, pin) ==
    [Produced(NoArg, NoArg, NoArg, NoArg, <<>>) EXCEPT !.plugin_name = TextQuiet]

\* the producers of the registry
Registered ==
    {TextImage, TextPython, TextShadertoy, TextThorvg, TextVideo, TextYmery,
     TextQuiet}

\* get_plugin(name): the producer registered under exactly this name
get_plugin(name) == IF name \in Registered THEN name ELSE NoArg

\* plugin_cmd.invoke(plugin_ctx)
InvokeProducer(cmd, fs, pin) ==
    IF cmd = TextImage THEN image(fs, pin)
    ELSE IF cmd = TextPython THEN python(fs, pin)
    ELSE IF cmd = TextThorvg THEN thorvg(fs, pin)
    ELSE IF cmd = TextVideo THEN video(fs, pin)
    ELSE IF cmd = TextYmery THEN ymery(fs, pin)
    ELSE IF cmd = TextQuiet THEN quiet(fs, pin)
    ELSE shadertoy(fs, pin)

----------------------------------------------------------------------------
(* main.py: the commands *)

\* one thing put on a stream: bytes or text written as they are
\* (k = "write"), or a line of report that click.echo prints (k = "echo")
\* with the byte count n and the other text data it names
Wr(data) == [k |-> "write", msg |-> "", n |-> Len(data), data |-> data]

Echo(msg, n, data) == [k |-> "echo", msg |-> msg, n |-> n, data |-> data]

Res(out, err, code, fw, fr) ==
    [out |-> out, err |-> err, exit |-> code, fw |-> fw, fr |-> fr]

\* click's handling of an exception that leaves a command
Raised(status, msg, fr) ==
    Res(<<>>, <<Echo(IF status = "Uncaught" THEN "Traceback" ELSE "Error", 0, <<>>),
               Echo(msg, 0, <<>>)>>,
        IF status = "UsageError" THEN 2 ELSE 1, <<>>, fr)

\* a slip: the query is sent whether or not --dry-run is given
cmd_lsIgnoreDry(inside, fs, a) ==
    Res(<<Wr(maybe_wrap_for_tmux(inside, create_query_sequence))>>,
        <<Echo("Query sent", 0, <<>>)>>, 0, <<>>, <<>>)

cmd_ls(inside, fs, a) ==
    IF a.dry
    THEN Res(<<Echo("Would send query", 0, create_query_sequence)>>,
             <<>>, 0, <<>>, <<>>)
    ELSE Res(<<Wr(maybe_wrap_for_tmux(inside, create_query_sequence))>>,
             <<Echo("Query sent", 0, <<>>)>>, 0, <<>>, <<>>)

\* a slip: the auxiliary argument string is put behind the payload
RunSequenceWithArgs(a, pr) ==
    IF pr.payload_bytes # NoArg
    THEN RunBytesFrame(pr.plugin_name, a.mode, a.pos[1], a.pos[2], a.pos[3],
                       a.pos[4], pr.payload_bytes)
    ELSE create_sequence(pr.plugin_name, a.mode, a.pos[1], a.pos[2], a.pos[3],
                         a.pos[4],
                         pr.payload \o (IF pr.plugin_args = NoArg THEN <<>>
                                        ELSE pr.plugin_args))

\* the frame cmd_run builds from what the producer left
RunSequence(a, pr) ==
    IF pr.payload_bytes # NoArg
    THEN RunBytesFrame(pr.plugin_name, a.mode, a.pos[1], a.pos[2], a.pos[3],
                       a.pos[4], pr.payload_bytes)
    ELSE create_sequence(pr.plugin_name, a.mode, a.pos[1], a.pos[2], a.pos[3],
                         a.pos[4], pr.payload)

\* a slip: the frame names the plugin as the command line did
DumpSequenceCmdName(a, pr) ==
    IF pr.payload_bytes # NoArg
    THEN DumpBytesFrame(a.plugin, a.mode, a.pos[1], a.pos[2], a.pos[3],
                        a.pos[4], pr.payload_bytes)
    ELSE create_sequence(a.plugin, a.mode, a.pos[1], a.pos[2], a.pos[3],
                         a.pos[4], pr.payload)

\* the frame cmd_dump builds from what the producer left
DumpSequence(a, pr) ==
    IF pr.payload_bytes # NoArg
    THEN DumpBytesFrame(pr.plugin_name, a.mode, a.pos[1], a.pos[2], a.pos[3],
                        a.pos[4], pr.payload_bytes)
    ELSE create_sequence(pr.plugin_name, a.mode, a.pos[1], a.pos[2], a.pos[3],
                         a.pos[4], pr.payload)

\* a slip: the KeyError of the lookup is swallowed
PluginNotFoundNever(plugin_cmd) == FALSE

\* run, dump: get_plugin raised KeyError
PluginNotFound(plugin_cmd) == plugin_cmd = NoArg

\* a slip: the payload is compared with the empty text, not with None
PayloadMissingEmptyOnly(pr) == pr.payload = <<>>

\* run, dump: payload is None and payload_bytes is None
PayloadMissing(pr) == pr.payload = NoArg /\ pr.payload_bytes = NoArg

\* an exception that leaves a command after the producer wrote warnings
RaisedAfter(warn, status, msg, fr) ==
    [Raised(status, msg, fr) EXCEPT !.err = warn \o @]

cmd_run(inside, fs, a) ==
    LET plugin_cmd == get_plugin(a.plugin) IN
    IF PluginNotFound(plugin_cmd)
    THEN Raised("ClickException", "Unknown plugin", <<>>)
    ELSE
    LET pr == InvokeProducer(plugin_cmd, fs, a.pin) IN
    IF pr.status # "ok" THEN RaisedAfter(pr.warn, pr.status, pr.msg, pr.reads)
    ELSE IF PayloadMissing(pr)
    THEN RaisedAfter(pr.warn, "ClickException", "Plugin did not set a payload",
                     pr.reads)
    ELSE
    LET sequence == RunSequence(a, pr)
        output_sequence == maybe_wrap_for_tmux(inside, sequence)
    IN IF a.dry
       THEN Res(<<IF inside
                  THEN Echo("Would output OSC sequence (with tmux wrapper)",
                            Len(sequence), IntToStr(Len(wrap_for_tmux(sequence))))
                  ELSE Echo("Would output OSC sequence", Len(sequence), <<>>)>>
                \o (IF a.verbose
                    THEN <<Echo("Plugin", 0, pr.plugin_name),
                           Echo("Mode, Position, Size", 0, a.mode)>>
                         \o (IF pr.payload \notin {NoArg, <<>>}
                             THEN <<Echo("Payload", 0, pr.payload)>> ELSE <<>>)
                    ELSE <<>>),
                pr.warn, 0, <<>>, pr.reads)
       ELSE Res(<<Wr(output_sequence)>>,
                pr.warn \o
                (IF a.verbose
                 THEN <<IF inside
                        THEN Echo("Sent (tmux passthrough)", Len(output_sequence), <<>>)
                        ELSE Echo("Sent", Len(sequence), <<>>)>>
                 ELSE <<>>),
                0, <<>>, pr.reads)

\* a slip: the default file is named after the name the producer set
DumpTargetProducerName(a, pr) ==
    IF a.output = NoArg THEN pr.plugin_name \o OscSuffix ELSE a.output

\* cmd_dump: output, or "<plugin_name>.osc"
DumpTarget(a, pr) ==
    IF a.output = NoArg THEN a.plugin \o OscSuffix ELSE a.output

\* a slip: the output file is opened for writing before the producer runs
cmd_dumpOpenFirst(inside, fs, a) ==
    LET plugin_cmd == get_plugin(a.plugin)
        pr == InvokeProducer(plugin_cmd, fs, a.pin)
        output == DumpTarget(a, pr)
        opened == IF a.dry THEN <<>> ELSE <<<<output, <<>>>>>>
    IN
    IF PluginNotFound(plugin_cmd)
    THEN [Raised("ClickException", "Unknown plugin", <<>>) EXCEPT !.fw = opened]
    ELSE IF pr.status # "ok"
    THEN [RaisedAfter(pr.warn, pr.status, pr.msg, pr.reads) EXCEPT !.fw = opened]
    ELSE IF PayloadMissing(pr)
    THEN [RaisedAfter(pr.warn, "ClickException", "Plugin did not set a payload",
                      pr.reads) EXCEPT !.fw = opened]
    ELSE IF a.dry
    THEN Res(<<Echo("Would write", Len(DumpSequence(a, pr)), output)>>, pr.warn,
             0, <<>>, pr.reads)
    ELSE Res(<<Echo("Saved to", Len(DumpSequence(a, pr)), output)>>, pr.warn, 0,
             <<<<output, utf8(DumpSequence(a, pr))>>>>, pr.reads)

cmd_dump(inside, fs, a) ==
    LET plugin_cmd == get_plugin(a.plugin) IN
    IF PluginNotFound(plugin_cmd)
    THEN Raised("ClickException", "Unknown plugin", <<>>)
    ELSE
    LET pr == InvokeProducer(plugin_cmd, fs, a.pin) IN
    IF pr.status # "ok" THEN RaisedAfter(pr.warn, pr.status, pr.msg, pr.reads)
    ELSE IF PayloadMissing(pr)
    THEN RaisedAfter(pr.warn, "ClickException", "Plugin did not set a payload",
                     pr.reads)
    ELSE
    LET sequence == DumpSequence(a, pr)
        output == DumpTarget(a, pr)
    IN IF a.dry
       THEN Res(<<Echo("Would write", Len(sequence), output)>>, pr.warn, 0, <<>>,
                pr.reads)
       ELSE Res(<<Echo("Saved to", Len(sequence), output)>>, pr.warn, 0,
                <<<<output, utf8(sequence)>>>>, pr.reads)

\* a slip: the vendor id is not compared
IgnoreVendor(status) == IF status = "vendor" THEN "ok" ELSE status

\* the parse status cmd_decode acts on
DecodeStatus(status) == status

\* a slip: the bytes are printed like text, a newline after them
RawOutEcho(decoded_bytes) == Wr(decoded_bytes \o <<LF>>)

\* sys.stdout.buffer.write(decoded_bytes)
RawOut(decoded_bytes) == Wr(decoded_bytes)

\* a slip: the payload is never required to be text
TextRequiredNever(raw, txt) == FALSE

\* the payload is to be written as text and is no UTF-8: the
\* UnicodeDecodeError of decoded_bytes.decode('utf-8')
TextRequired(raw, txt) == ~raw /\ ~txt.ok

cmd_decode(inside, fs, a) ==
    IF ~Exists(fs, a.input_file)
    THEN Raised("UsageError", "Path does not exist", <<>>)
    ELSE
    LET data == fs[a.input_file]
        fr == <<<<a.input_file, data>>>>
        p == ParseFile(data)
        st == DecodeStatus(p.status)
    IN
    IF st = "unicode" THEN Raised("Uncaught", "UnicodeDecodeError", fr)
    ELSE IF st = "no_prefix"
    THEN Raised("ClickException", "Invalid yetty file: expected OSC sequence", fr)
    ELSE IF st = "few_parts"
    THEN Raised("ClickException", "Invalid OSC sequence: expected 8 parts", fr)
    ELSE IF st = "vendor" THEN Raised("ClickException", "Unknown vendor ID", fr)
    ELSE
    LET encoded_payload == p.parts[8]
        meta == IF a.info \/ a.verbose
                THEN <<Echo("Plugin", 0, p.parts[2]), Echo("Mode", 0, p.parts[3]),
                       Echo("Position", 0, p.parts[4] \o <<44>> \o p.parts[5]),
                       Echo("Size", 0, p.parts[6] \o <<120>> \o p.parts[7]),
                       Echo("Payload", Len(encoded_payload), <<>>)>>
                ELSE <<>>
    IN
    IF a.info THEN Res(<<>>, meta, 0, <<>>, fr)
    ELSE
    LET dec == decode(encoded_payload)
        txt == Utf8Decode(dec.val)
    IN
    IF ~dec.ok
    THEN Res(<<>>, meta \o <<Echo("Error", 0, <<>>),
                            Echo("Failed to decode payload", 0, <<>>)>>, 1, <<>>, fr)
    ELSE IF TextRequired(a.raw, txt)
    THEN Res(<<>>, meta \o <<Echo("Error", 0, <<>>),
                            Echo("Failed to decode payload: not valid UTF-8", 0, <<>>)>>,
             1, <<>>, fr)
    ELSE
    LET decoded_bytes == dec.val
        decoded_text == txt.text
        err == meta \o (IF a.verbose
                        THEN <<Echo("Decoded", Len(decoded_bytes), <<>>)>> ELSE <<>>)
        tofile == a.output \notin {NoArg, <<>>}
    IN
    IF a.dry
    THEN Res(<<Echo("Would write", Len(decoded_bytes),
                    IF tofile THEN a.output ELSE <<115, 116, 100, 111, 117, 116>>)>>, err, 0, <<>>, fr)
    ELSE IF a.raw
    THEN (IF tofile
          THEN Res(<<>>, err \o <<Echo("Saved to", Len(decoded_bytes), a.output)>>,
                   0, <<<<a.output, decoded_bytes>>>>, fr)
          ELSE Res(<<RawOut(decoded_bytes)>>, err, 0, <<>>, fr))
    ELSE (IF tofile
          THEN Res(<<>>, err \o <<Echo("Saved to", Len(decoded_text), a.output)>>,
                   0, <<<<a.output, utf8(decoded_text)>>>>, fr)
          ELSE Res(<<Wr(decoded_text \o <<LF>>)>>, err, 0, <<>>, fr))

\* cli.commands: "plugins", "ls", "run", "dump", "decode", "help"
Commands ==
    { <<112, 108, 117, 103, 105, 110, 115>>, <<108, 115>>, <<114, 117, 110>>, <<100, 117, 109, 112>>, <<100, 101, 99, 111, 100, 101>>, <<104, 101, 108, 112>> }

\* cmd_help: a.plugin is the topic
cmd_help(inside, fs, a) ==
    IF a.plugin = NoArg
    THEN Res(<<Echo("help of the program", 0, <<>>)>>, <<>>, 0, <<>>, <<>>)
    ELSE IF a.plugin \in Commands
    THEN Res(<<Echo("help of the command", 0, a.plugin)>>, <<>>, 0, <<>>, <<>>)
    ELSE IF PluginNotFound(get_plugin(a.plugin))
    THEN Raised("ClickException", "Unknown topic", <<>>)
    ELSE Res(<<Echo("Plugin", 0, a.plugin),
               Echo("help of the plugin", 0, a.plugin)>>, <<>>, 0, <<>>, <<>>)

----------------------------------------------------------------------------
(* One process: main() runs one command on the file system it finds *)

\* "i.png", "o.osc", "o.txt", "m.osc", "t.png"
FImg == <<105, 46, 112, 110, 103>>
FOut == <<111, 46, 111, 115, 99>>
FTxt == <<111, 46, 116, 120, 116>>
FMissing == <<109, 46, 111, 115, 99>>
FTex == <<116, 46, 112, 110, 103>>

\* frames on disk: wrong vendor id; seven fields; bare ']' prefix, BEL
\* terminator and ';' in the payload; payload bytes that are no UTF-8;
\* payload of odd length; no prefix; "z.osc": an empty payload
FVendor == <<118, 46, 111, 115, 99>>
FShort == <<115, 46, 111, 115, 99>>
FBel == <<98, 46, 111, 115, 99>>
FBin == <<117, 46, 111, 115, 99>>
FOdd == <<100, 46, 111, 115, 99>>
FPlain == <<112, 46, 111, 115, 99>>
FEmpty == <<122, 46, 111, 115, 99>>

\* videos: "c.bin" (no video extension), "c.MP4", "e.mp4" and "e.bin"
\* (both empty); "a.svg" holds "<a>"
FVidBin == <<99, 46, 98, 105, 110>>
FVidMp4 == <<99, 46, 77, 80, 52>>
FEmptyMp4 == <<101, 46, 109, 112, 52>>
FEmptyBin == <<101, 46, 98, 105, 110>>
FSvg == <<97, 46, 115, 118, 103>>

InitFiles ==
    (FImg :> <<0, 26, 255>>)
    @@ (FVidBin :> <<0, 255>>)
    @@ (FVidMp4 :> <<27>>)
    @@ (FEmptyMp4 :> <<>>)
    @@ (FEmptyBin :> <<>>)
    @@ (FSvg :> utf8(<<60, 97, 62>>))
    @@ (FVendor :> utf8(<<ESC, RBRACKET>> \o <<57, 57, 57, 57, 59, 97, 59, 82, 59, 48, 59, 48, 59, 52, 48, 59, 50, 48, 59, 33, 98>> \o <<ESC, BACKSLASH>>))
    @@ (FShort :> utf8(<<ESC, RBRACKET>> \o <<57, 57, 57, 57, 57, 59, 97, 59, 82, 59, 48, 59, 48, 59, 52, 48, 59, 33, 98>> \o <<ESC, BACKSLASH>>))
    @@ (FBel :> utf8(<<RBRACKET>> \o <<57, 57, 57, 57, 57, 59, 97, 59, 65, 59, 49, 59, 50, 59, 51, 59, 52, 59, 33, 59, 33, 98>> \o <<BEL, LF>>))
    @@ (FBin :> utf8(<<ESC, RBRACKET>> \o <<57, 57, 57, 57, 57, 59, 97, 59, 82, 59, 48, 59, 48, 59, 52, 48, 59, 50, 48, 59, 35, 100>> \o <<ESC, BACKSLASH>>))
    @@ (FOdd :> utf8(<<ESC, RBRACKET>> \o <<57, 57, 57, 57, 57, 59, 97, 59, 82, 59, 48, 59, 48, 59, 52, 48, 59, 50, 48, 59, 33, 98, 33>> \o <<ESC, BACKSLASH>>))
    @@ (FEmpty :> utf8(<<ESC, RBRACKET>> \o <<57, 57, 57, 57, 57, 59, 97, 59, 82, 59, 48, 59, 48, 59, 52, 48, 59, 50, 48, 59>> \o <<ESC, BACKSLASH>>))
    @@ (FPlain :> utf8(<<57, 57, 57, 57, 57, 59, 97, 59, 82, 59, 48, 59, 48, 59, 52, 48, 59, 50, 48, 59, 33, 98>>))

NoPin == [input |-> NoArg, inline |-> NoArg, stdin |-> <<>>,
          channels |-> <<NoArg, NoArg, NoArg, NoArg>>,
          svg |-> NoArg, lottie |-> NoArg, yaml |-> NoArg,
          file |-> NoArg, layouts |-> <<>>, main |-> NoArg, loop |-> TRUE]

\* what run and dump are asked to produce: the plugin name on the command
\* line, the producer's options with the bytes on stdin, mode and position
BaseWorkloads ==
    {[plugin |-> TextImage, pin |-> [NoPin EXCEPT !.input = FImg],
      mode |-> ModeR, pos |-> <<0, 0, 40, 20>>],
     [plugin |-> TextImage,
      pin |-> [NoPin EXCEPT !.input = Dash, !.stdin = <<27, 120>>],
      mode |-> ModeA, pos |-> <<0 - 5, 12, 1, 100>>],
     [plugin |-> TextPython, pin |-> [NoPin EXCEPT !.inline = <<120, 59>>],
      mode |-> ModeR, pos |-> <<0, 0, 40, 20>>],
     [plugin |-> TextShadertoy,
      pin |-> [NoPin EXCEPT !.input = Dash, !.stdin = <<195, 169>>,
                            !.channels = <<FTex, NoArg, NoArg, NoArg>>],
      mode |-> ModeR, pos |-> <<0, 0, 40, 20>>],
     [plugin |-> TextImageUpper, pin |-> [NoPin EXCEPT !.input = FImg],
      mode |-> ModeR, pos |-> <<0, 0, 40, 20>>]}

\* a producer's options at the default position
Default(plugin, pin) ==
    [plugin |-> plugin, pin |-> pin, mode |-> ModeR, pos |-> <<0, 0, 40, 20>>]

\* the options of python: --input absent, '', '-', a file, a missing file;
\* --inline absent, '', 'x;'
PythonPins ==
    {[NoPin EXCEPT !.input = i, !.inline = l, !.stdin = <<120>>] :
        i \in {NoArg, <<>>, Dash, FImg, FMissing}, l \in {NoArg, <<>>, <<120, 59>>}}

\* the options of video: the positional file, --input, the bytes on stdin
VideoPins ==
    {[NoPin EXCEPT !.file = f, !.input = i, !.stdin = d] :
        f \in {NoArg, FVidMp4, FEmptyBin},
        i \in {NoArg, Dash, FVidBin, FEmptyMp4, FMissing},
        d \in {<<>>, <<0>>}}

\* the options of thorvg: none, one, two of them, a missing file
ThorvgPins ==
    {[NoPin EXCEPT !.svg = v, !.lottie = l, !.input = i] :
        v \in {NoArg, FSvg}, l \in {NoArg, FSvg, FMissing}, i \in {NoArg, FSvg}}

Workloads ==
    BaseWorkloads
    \cup {Default(TextPython, pin) : pin \in PythonPins}
    \cup {Default(TextVideo, pin) : pin \in VideoPins}
    \cup {Default(TextThorvg, pin) : pin \in ThorvgPins}
    \cup {Default(TextImage, [NoPin EXCEPT !.input = FMissing]),
          Default(TextImage, NoPin),
          Default(TextYmery, [NoPin EXCEPT !.layouts = <<<<108>>>>, !.main = <<109>>]),
          Default(TextYmery, NoPin),
          Default(TextVideo, [NoPin EXCEPT !.file = FVidMp4, !.loop = FALSE]),
          Default(TextQuiet, NoPin)}

Args(cmd, wl, output, input_file, info, raw, dry, verbose) ==
    [cmd |-> cmd, plugin |-> wl.plugin, pin |-> wl.pin, mode |-> wl.mode,
     pos |-> wl.pos, output |-> output, input_file |-> input_file,
     info |-> info, raw |-> raw, dry |-> dry, verbose |-> verbose]

NoWorkload == [plugin |-> NoArg, pin |-> NoPin, mode |-> NoArg, pos |-> <<>>]

\* open(name, 'w') and open(name, 'wb'): the file holds the bytes written
RECURSIVE ApplyWrites(_, _)
ApplyWrites(fs, fw) ==
    IF fw = <<>> THEN fs
    ELSE ApplyWrites([n \in DOMAIN fs \cup {fw[1][1]} |->
                         IF n = fw[1][1] THEN fw[1][2] ELSE fs[n]], Tail(fw))

\* the file system the process finds: the files above and, possibly,
\* "o.osc" as an earlier dump of one of the workloads left it
InitFileSystems ==
    {ApplyWrites(InitFiles,
                 cmd_dump(FALSE, InitFiles,
                          Args("dump", wl, FOut, NoArg, FALSE, FALSE, dry, FALSE)).fw) :
        wl \in BaseWorkloads, dry \in BOOLEAN}

Init ==
    /\ fn = "none"
    /\ arg = <<>>
    /\ ret = <<>>
    /\ DcsIdle
    /\ tmux \in BOOLEAN
    /\ files \in InitFileSystems
    /\ inv = NoInv
    /\ stdout = <<>>
    /\ stderr = <<>>
    /\ exit = 0
    /\ fwrites = <<>>
    /\ freads = <<>>

\* main(): cli(obj={}) dispatches the one command of the command line
Invoke(a, r) ==
    /\ inv = NoInv
    /\ inv' = a
    /\ stdout' = r.out
    /\ stderr' = r.err
    /\ exit' = r.exit
    /\ fwrites' = r.fw
    /\ freads' = r.fr
    /\ files' = ApplyWrites(files, r.fw)
    /\ UNCHANGED <<libVars, dcs, tmux>>

CmdLs ==
    \E dry \in BOOLEAN, verbose \in BOOLEAN :
        LET a == Args("ls", NoWorkload, NoArg, NoArg, FALSE, FALSE, dry, verbose)
        IN Invoke(a, cmd_ls(tmux, files, a))

CmdRun ==
    \E wl \in Workloads, dry \in BOOLEAN, verbose \in BOOLEAN :
        LET a == Args("run", wl, NoArg, NoArg, FALSE, FALSE, dry, verbose)
        IN Invoke(a, cmd_run(tmux, files, a))

CmdDump ==
    \E wl \in Workloads, output \in {NoArg, FOut},
       dry \in BOOLEAN, verbose \in BOOLEAN :
        LET a == Args("dump", wl, output, NoArg, FALSE, FALSE, dry, verbose)
        IN Invoke(a, cmd_dump(tmux, files, a))

CmdDecode ==
    \E input_file \in DOMAIN files \cup {FMissing}, output \in {NoArg, FTxt},
       info \in BOOLEAN, raw \in BOOLEAN, dry \in BOOLEAN, verbose \in BOOLEAN :
        LET a == Args("decode", NoWorkload, output, input_file, info, raw, dry,
                      verbose)
        IN Invoke(a, cmd_decode(tmux, files, a))

CmdHelp ==
    \E topic \in {NoArg, <<114, 117, 110>>, TextImage, TextImageUpper},
       dry \in BOOLEAN, verbose \in BOOLEAN :
        LET a == Args("help", [NoWorkload EXCEPT !.plugin = topic], NoArg, NoArg,
                      FALSE, FALSE, dry, verbose)
        IN Invoke(a, cmd_help(tmux, files, a))

Next == CmdLs \/ CmdRun \/ CmdDump \/ CmdDecode \/ CmdHelp

Spec == Init /\ [][Next]_vars

\* the text of the file the decode command read
DecodeInputText == Utf8Decode(freads[1][2]).text

\* what is left of a text once one leading ESC ']' or ']' is taken off
AfterPrefix(t) ==
    IF Len(t) >= 2 /\ t[1] = 27 /\ t[2] = 93 THEN SubSeq(t, 3, Len(t))
    ELSE IF Len(t) >= 1 /\ t[1] = 93 THEN SubSeq(t, 2, Len(t))
    ELSE t

\* the characters before the first ';'
FirstField(t) ==
    LET semis == {i \in 1..Len(t) : t[i] = 59} IN
    IF semis = {} THEN t
    ELSE SubSeq(t, 1, (CHOOSE i \in semis : \A j \in semis : i <= j) - 1)

SemiCount(t) == Cardinality({i \in 1..Len(t) : t[i] = 59})

\* C8: the decode command, given a text file whose frame has a first field
\* other than 99999 or fewer than 8 fields, ends with an error message and
\* exit status 1, having written nothing to standard output and to no file
\* and having reported no decoded payload.
C8_DecodeRejectsProtocol ==
    (/\ inv.cmd = "decode"
     /\ freads # <<>>
     /\ Utf8Decode(freads[1][2]).ok
     /\ \/ SemiCount(DecodeInputText) < 7
        \/ FirstField(AfterPrefix(DecodeInputText)) # <<57, 57, 57, 57, 57>>)
    =>
    /\ exit = 1
    /\ stdout = <<>>
    /\ fwrites = <<>>
    /\ Len(stderr) = 2
    /\ stderr[1].msg = "Error"
    /\ stderr[2].msg \in {"Unknown vendor ID",
                          "Invalid OSC sequence: expected 8 parts",
                          "Invalid yetty file: expected OSC sequence"}

C8_Witness ==
    /\ inv.cmd = "decode"
    /\ inv.input_file = <<118, 46, 111, 115, 99>>
    /\ inv.raw /\ ~inv.info /\ ~inv.dry
    /\ inv.output = <<111, 46, 116, 120, 116>>
    /\ SemiCount(DecodeInputText) = 7
    /\ stderr[2].msg = "Unknown vendor ID"
    /\ exit = 1

\* a command wrote its frame: it succeeded outside dry-run
Wrote == exit = 0 /\ ~inv.dry

\* the command line of the last invocation, given to another command
InvAs(cmd, output) == [inv EXCEPT !.cmd = cmd, !.output = output]

\* the text dump puts into its file for the workload of the last invocation
DumpedText ==
    Utf8Decode(cmd_dump(tmux, files, InvAs("dump", <<111, 46, 111, 115, 99>>)).fw[1][2]).text

\* what run writes for the workload of the last invocation when no
\* multiplexer is signalled
RunPlainText == cmd_run(FALSE, files, InvAs("run", NoArg)).out[1].data

\* C9: ls and run write the frame wrapped by wrap_for_tmux when TMUX is set
\* and as it is when TMUX is not set; dump writes the frame as it is
\* whether or not TMUX is set.
C9_WrapIffTmux ==
    /\ (inv.cmd = "ls" /\ Wrote) =>
          /\ Len(stdout) = 1 /\ stdout[1].k = "write"
          /\ stdout[1].data =
                IF tmux
                THEN <<27>> \o <<80, 116, 109, 117, 120, 59>> \o <<27, 27>> \o <<93, 57, 57, 57, 57, 57, 59, 63, 59, 81>>
                         \o <<27, 27, 92, 27, 92>>
                ELSE <<27>> \o <<93, 57, 57, 57, 57, 57, 59, 63, 59, 81>> \o <<27, 92>>
    /\ (inv.cmd = "run" /\ Wrote) =>
          /\ Len(stdout) = 1 /\ stdout[1].k = "write"
          /\ stdout[1].data =
                IF tmux THEN wrap_for_tmux(DumpedText) ELSE DumpedText
    /\ (inv.cmd = "dump" /\ Wrote) =>
          /\ Len(fwrites) = 1
          /\ fwrites[1][2] = utf8(RunPlainText)
          /\ StartsWith(fwrites[1][2], <<27>> \o <<93, 57, 57, 57, 57, 57, 59>>)

C9_Witness ==
    /\ inv.cmd = "run"
    /\ Wrote
    /\ tmux
    /\ inv.plugin = <<115, 104, 97, 100, 101, 114, 116, 111, 121>>
    /\ StartsWith(stdout[1].data, <<27>> \o <<80, 116, 109, 117, 120, 59>> \o <<27, 27>> \o <<93, 57, 57, 57, 57, 57, 59, 115, 104, 97, 100, 101, 114, 59, 82, 59>>)
    /\ EndsWith(stdout[1].data, <<27, 27, 92, 27, 92>>)

\* C10: for the same plugin, position and producer input, the file dump
\* writes holds exactly the frame run writes to standard output when no
\* multiplexer is signalled, and the file is the one named by --output or,
\* without --output, <plugin>.osc after the name on the command line.
C10_DumpSameAsRun ==
    /\ (inv.cmd = "dump" /\ Wrote) =>
          /\ Len(fwrites) = 1
          /\ Utf8Decode(fwrites[1][2]).text = RunPlainText
          /\ fwrites[1][1] = IF inv.output = NoArg THEN inv.plugin \o <<46, 111, 115, 99>>
                             ELSE inv.output
          /\ files[fwrites[1][1]] = fwrites[1][2]
    /\ (inv.cmd = "dump" /\ ~Wrote) => fwrites = <<>>
    /\ (inv.cmd = "run" /\ Wrote /\ ~tmux) => stdout[1].data = DumpedText

C10_Witness ==
    /\ inv.cmd = "dump"
    /\ Wrote
    /\ tmux
    /\ inv.plugin = <<115, 104, 97, 100, 101, 114, 116, 111, 121>>
    /\ inv.output = NoArg
    /\ fwrites[1][1] = <<115, 104, 97, 100, 101, 114, 116, 111, 121, 46, 111, 115, 99>>
    /\ fwrites[1][2] = utf8(<<27>> \o <<93, 57, 57, 57, 57, 57, 59, 115, 104, 97, 100, 101, 114, 59, 82, 59, 48, 59, 48, 59, 52, 48, 59, 50, 48, 59, 35, 40, 34, 108>> \o <<27, 92>>)

----------------------------------------------------------------------------
(* The producers on their own: one producer runs on the options it is given *)

\* files the producers are pointed at. By extension: "a.svg" holds "{",
\* "a.JSON" holds "<", "a.lottie" holds "x", "a.yaml" holds "<", "a.yml"
\* holds "{". By content: "a.txt" " \n<a", "b.txt" "{}", "c.txt" "k",
\* "d.txt" "{<?xml", "e.txt" "a\r\nb\r", "f.txt" and "g.txt" hold '<?xml'
\* after 97 and after 95 letters, "h" is empty, ".svg" holds "{", "i.bin"
\* holds a byte that is no UTF-8.
PSvg == <<97, 46, 115, 118, 103>>
PTxt == <<97, 46, 116, 120, 116>>
PCr == <<101, 46, 116, 120, 116>>
PNone == <<110, 111, 110, 101>>

ProducerFiles ==
    (PSvg :> utf8(<<123>>))
    @@ (<<97, 46, 74, 83, 79, 78>> :> utf8(<<60>>))
    @@ (<<97, 46, 108, 111, 116, 116, 105, 101>> :> utf8(<<120>>))
    @@ (<<97, 46, 121, 97, 109, 108>> :> utf8(<<60>>))
    @@ (<<97, 46, 121, 109, 108>> :> utf8(<<123>>))
    @@ (PTxt :> utf8(<<32, 10, 60, 97>>))
    @@ (<<98, 46, 116, 120, 116>> :> utf8(<<123, 125>>))
    @@ (<<99, 46, 116, 120, 116>> :> utf8(<<107>>))
    @@ (<<100, 46, 116, 120, 116>> :> utf8(<<123, 60, 63, 120, 109, 108>>))
    @@ (PCr :> utf8(<<97, 13, 10, 98, 13>>))
    @@ (<<102, 46, 116, 120, 116>> :> utf8([i \in 1..97 |-> 120] \o <<60, 63, 120, 109, 108>>))
    @@ (<<103, 46, 116, 120, 116>> :> utf8([i \in 1..95 |-> 120] \o <<60, 63, 120, 109, 108>>))
    @@ (<<104>> :> <<>>)
    @@ (<<46, 115, 118, 103>> :> utf8(<<123>>))
    @@ (<<105, 46, 98, 105, 110>> :> <<255>>)

\* the values an option that names a file is given: absent, '', a file that
\* does not exist, files that do
FileOptions == {NoArg, <<>>, PNone, PSvg, PCr}

\* 'x', ';', e-acute
CodeSample == {120, 59, 233}

PythonInputs ==
    {[NoPin EXCEPT !.input = i, !.inline = l, !.stdin = d] :
        i \in {NoArg, <<>>, Dash, PNone, PTxt},
        l \in {NoArg} \cup SeqsUpTo(CodeSample, MaxStrLen),
        d \in {<<>>, <<120>>, <<195, 169>>, <<255>>}}

ThorvgInputs ==
    {[NoPin EXCEPT !.svg = v, !.lottie = l, !.yaml = y, !.input = i] :
        v \in FileOptions, l \in FileOptions, y \in FileOptions,
        i \in {NoArg, <<>>, PNone} \cup DOMAIN ProducerFiles}

\* layout paths "l", "a=b", "c d", "", and main "m", "x=y", ""
LayoutSample == {<<108>>, <<97, 61, 98>>, <<99, 32, 100>>, <<>>}

YmeryInputs ==
    {[NoPin EXCEPT !.layouts = p, !.main = m] :
        p \in SeqsUpTo(LayoutSample, MaxLen),
        m \in {NoArg, <<109>>, <<120, 61, 121>>, <<>>}}

ProducerInit ==
    /\ fn = "none"
    /\ arg \in ({TextPython} \X PythonInputs) \cup ({TextThorvg} \X ThorvgInputs)
                \cup ({TextYmery} \X YmeryInputs)
    /\ ret = <<>>
    /\ DcsIdle
    /\ tmux = FALSE
    /\ files = ProducerFiles
    /\ inv = NoInv
    /\ stdout = <<>>
    /\ stderr = <<>>
    /\ exit = 0
    /\ fwrites = <<>>
    /\ freads = <<>>

\* python(ctx, input_, inline_)
DoPython ==
    /\ fn = "none"
    /\ arg[1] = TextPython
    /\ fn' = "python"
    /\ ret' = python(files, arg[2])
    /\ UNCHANGED <<arg, dcs, cliVars>>

\* thorvg(ctx, svg_file, lottie_file, yaml_file, input_file)
DoThorvg ==
    /\ fn = "none"
    /\ arg[1] = TextThorvg
    /\ fn' = "thorvg"
    /\ ret' = thorvg(files, arg[2])
    /\ UNCHANGED <<arg, dcs, cliVars>>

\* ymery(ctx, layouts_path, main)
DoYmery ==
    /\ fn = "none"
    /\ arg[1] = TextYmery
    /\ fn' = "ymery"
    /\ ret' = ymery(files, arg[2])
    /\ UNCHANGED <<arg, dcs, cliVars>>

ProducerNext == DoPython \/ DoThorvg \/ DoYmery

SpecProducer == ProducerInit /\ [][ProducerNext]_vars

\* a producer ended with an error click reports: ClickException, UsageError
ValidationError(r) ==
    r.status \in {"ClickException", "UsageError"} /\ r.payload = NoArg
                                                   /\ r.payload_bytes = NoArg

\* C17: python given both --input and --inline fails with a validation
\* error, given neither fails with a validation error, given --inline alone
\* takes "inline:" and that code, given --input '-' alone takes "inline:"
\* and the text on stdin, given --input <path> alone takes the absolute path
\* of the file or fails with a validation error when there is no such file;
\* an option given as the empty string is given.
C17_PythonOneSource ==
    fn = "python" =>
        LET pin == arg[2]
            stdin_text == Utf8Decode(pin.stdin)
        IN
        /\ (pin.input # NoArg /\ pin.inline # NoArg) => ValidationError(ret)
        /\ (pin.input = NoArg /\ pin.inline = NoArg) => ValidationError(ret)
        /\ (pin.input = NoArg /\ pin.inline # NoArg) =>
              /\ ret.status = "ok"
              /\ ret.payload = InlineTag \o pin.inline
        /\ (pin.input = Dash /\ pin.inline = NoArg /\ stdin_text.ok) =>
              /\ ret.status = "ok"
              /\ ret.payload = InlineTag \o stdin_text.text
        /\ (pin.input \notin {NoArg, Dash} /\ pin.inline = NoArg) =>
              \/ ValidationError(ret)
              \/ /\ ret.status = "ok"
                 /\ pin.input \in DOMAIN files
                 /\ ret.payload = Cwd \o <<47>> \o pin.input

\* the options of thorvg that the command line gives
GivenSources(pin) == {o \in {"svg", "lottie", "yaml", "input"} : pin[o] # NoArg}

\* C18: thorvg given none of --svg, --lottie, --yaml, --input fails with a
\* validation error and sets no payload; given two or more of them it
\* fails with a validation error and sets no payload; given exactly one,
\* naming a file of text, it sets a payload.
C18_ThorvgOneSource ==
    fn = "thorvg" =>
        LET pin == arg[2]
            given == GivenSources(pin)
        IN
        /\ given = {} =>
              /\ ValidationError(ret)
              /\ ret.msg = "One of --svg, --lottie, --yaml, or --input is required"
        /\ Cardinality(given) >= 2 => ValidationError(ret)
        /\ (\E o \in given :
               /\ given = {o}
               /\ pin[o] \in DOMAIN files
               /\ Utf8Decode(files[pin[o]]).ok)
           => (ret.status = "ok" /\ ret.payload # NoArg)

C18_Witness ==
    /\ fn = "thorvg"
    /\ arg[2].svg = <<97, 46, 115, 118, 103>>
    /\ arg[2].input = <<101, 46, 116, 120, 116>>
    /\ arg[2].lottie = NoArg /\ arg[2].yaml = NoArg
    /\ {arg[2].svg, arg[2].input} \subseteq DOMAIN files
    /\ ret.status = "ClickException"
    /\ ret.msg = "Only one source file option can be specified"
    /\ ret.payload = NoArg

\* the one option of thorvg that is given, when one is
TheSource(pin) == CHOOSE o \in GivenSources(pin) : TRUE

\* the first character of a text that str.strip() would leave, 0 if none
RECURSIVE FirstNonSpace(_)
FirstNonSpace(text) ==
    IF text = <<>> THEN 0
    ELSE IF Head(text) \in Whitespace THEN FirstNonSpace(Tail(text))
    ELSE Head(text)

\* the type an extension names, <<>> when it names none
TypeOfExtension(name) ==
    LET ext == Lower(Suffix(name)) IN
    IF ext = <<46, 115, 118, 103>> THEN TextSvg
    ELSE IF ext \in { <<46, 106, 115, 111, 110>>, <<46, 108, 111, 116, 116, 105, 101>> } THEN TextLottie
    ELSE IF ext \in { <<46, 121, 97, 109, 108>>, <<46, 121, 109, 108>> } THEN TextYaml
    ELSE <<>>

\* the type the first character that is no whitespace names
TypeOfFirstChar(text) ==
    IF FirstNonSpace(text) = 60 THEN TextSvg
    ELSE IF FirstNonSpace(text) = 123 THEN TextLottie
    ELSE TextYaml

\* '<?xml' lies within the first 100 characters of the text once leading
\* whitespace is taken off
XmlDeclarationAhead(text) ==
    LET st == Strip(text) IN
    \E i \in 1..(SniffWindow - 4) :
        i + 4 <= Len(st) /\ SubSeq(st, i, i + 4) = <<60, 63, 120, 109, 108>>

\* the type --svg, --lottie and --yaml name
TypeOfOption(o) ==
    IF o = "svg" THEN TextSvg ELSE IF o = "lottie" THEN TextLottie ELSE TextYaml

\* C19 as stated: with --input the type is the one the extension names and,
\* when it names none, the one the first character that is no whitespace
\* names ('<' svg, '{' lottie, anything else yaml); whatever the option, the
\* payload is the type, a line feed and the content of the file as it is.
C19_AutoDetectByFirstChar ==
    (fn = "thorvg" /\ ret.status = "ok") =>
        LET pin == arg[2]
            o == TheSource(pin)
            text == Utf8Decode(files[pin[o]]).text
            type == IF o # "input" THEN TypeOfOption(o)
                    ELSE IF TypeOfExtension(pin[o]) # <<>>
                    THEN TypeOfExtension(pin[o])
                    ELSE TypeOfFirstChar(text)
        IN ret.payload = type \o <<LF>> \o text

\* C19: with --input the type is the one the extension names and, when it
\* names none, svg if the content, leading whitespace apart, starts with
\* '<' or holds '<?xml' within its first 100 characters, else lottie if it
\* starts with '{', else yaml; whatever the option, the payload is the
\* type, a line feed and the content of the file as a text-mode read gives
\* it, "\r\n" and "\r" turned into "\n".
C19_AutoDetect ==
    (fn = "thorvg" /\ ret.status = "ok") =>
        LET pin == arg[2]
            o == TheSource(pin)
            text == ReadText(Utf8Decode(files[pin[o]]).text)
            type == IF o # "input" THEN TypeOfOption(o)
                    ELSE IF TypeOfExtension(pin[o]) # <<>>
                    THEN TypeOfExtension(pin[o])
                    ELSE IF XmlDeclarationAhead(text) THEN TextSvg
                    ELSE TypeOfFirstChar(text)
        IN ret.payload = type \o <<LF>> \o text

\* "d.txt" holds "{<?xml": told to be svg
C19_Witness ==
    /\ fn = "thorvg"
    /\ GivenSources(arg[2]) = {"input"}
    /\ arg[2].input = <<100, 46, 116, 120, 116>>
    /\ files[arg[2].input] = <<123, 60, 63, 120, 109, 108>>
    /\ ret.status = "ok"
    /\ ret.payload = <<115, 118, 103, 10>> \o files[arg[2].input]

----------------------------------------------------------------------------
(* --dry-run and --verbose *)

\* the command of a command line run on a file system
Run(inside, fs, a) ==
    IF a.cmd = "ls" THEN cmd_ls(inside, fs, a)
    ELSE IF a.cmd = "run" THEN cmd_run(inside, fs, a)
    ELSE IF a.cmd = "dump" THEN cmd_dump(inside, fs, a)
    ELSE IF a.cmd = "help" THEN cmd_help(inside, fs, a)
    ELSE cmd_decode(inside, fs, a)

\* the frames and payloads among the things put on a stream
Writes(stream) == {i \in 1..Len(stream) : stream[i].k = "write"}

\* the lines of report on a stream
Reports(stream) == {i \in 1..Len(stream) : stream[i].k = "echo"}

\* the same command line without --dry-run
Undry == Run(tmux, files, [inv EXCEPT !.dry = FALSE])

\* the number of bytes a result puts into its file or on standard output:
\* raw payload bytes as they are, text in UTF-8
WrittenBytes(a, r) ==
    IF r.fw # <<>> THEN Len(r.fw[1][2])
    ELSE LET e == r.out[CHOOSE i \in Writes(r.out) : TRUE] IN
         IF a.cmd = "decode" /\ a.raw THEN Len(e.data) ELSE Len(utf8(e.data))

HasWrite(r) == r.fw # <<>> \/ Writes(r.out) # {}

\* a report on standard output gives the count c
ReportsCount(c) ==
    \E i \in Reports(stdout) : stdout[i].n = c \/ stdout[i].data = IntToStr(c)

\* with --dry-run nothing is written to standard output or to a file
DrySuppresses ==
    inv # NoInv /\ inv.dry => Writes(stdout) = {} /\ fwrites = <<>>

C12_VerboseLeavesStdout ==
    [][(inv' # NoInv /\ inv'.verbose) =>
          LET quiet_run == Run(tmux, files, [inv' EXCEPT !.verbose = FALSE]) IN
          /\ stdout' = quiet_run.out
          /\ fwrites' = quiet_run.fw
          /\ exit' = quiet_run.exit]_vars

----------------------------------------------------------------------------
(* run and dump: the producer *)

\* the last command line was run or dump
RunOrDump == inv # NoInv /\ inv.cmd \in {"run", "dump"}

\* what the producer of the last command line leaves
Producer == InvokeProducer(get_plugin(inv.plugin), files, inv.pin)

\* the command ended with click's report of a ClickException or UsageError
UserError(msg) ==
    /\ exit \in {1, 2}
    /\ Len(stderr) >= 2
    /\ stderr[Len(stderr) - 1] = Echo("Error", 0, <<>>)
    /\ stderr[Len(stderr)] = Echo(msg, 0, <<>>)

\* no frame or payload on standard output, no file written
NothingWritten == stdout = <<>> /\ fwrites = <<>>

\* C13: run and dump of a producer that returns having set neither
\* 'payload' nor 'payload_bytes' end with the error "did not set a
\* payload", exit status 1, nothing on standard output and no file written.
C13_NoPayloadFails ==
    (/\ RunOrDump
     /\ get_plugin(inv.plugin) # NoArg
     /\ Producer.status = "ok"
     /\ Producer.payload = NoArg
     /\ Producer.payload_bytes = NoArg)
    =>
    /\ UserError("Plugin did not set a payload")
    /\ exit = 1
    /\ NothingWritten

C13_Witness ==
    /\ inv # NoInv /\ inv.cmd = "dump" /\ ~inv.dry
    /\ inv.plugin = <<113, 117, 105, 101, 116>>
    /\ Producer.status = "ok"
    /\ stderr[2].msg = "Plugin did not set a payload"
    /\ exit = 1
    /\ <<113, 117, 105, 101, 116, 46, 111, 115, 99>> \notin DOMAIN files

\* C14: run and dump of a name that is not, letter for letter, the name of
\* a registered producer end with the error "Unknown plugin" and exit
\* status 1; no producer has run (no file was read) and nothing was
\* written.
C14_UnknownPluginFails ==
    (RunOrDump /\ inv.plugin \notin Registered) =>
        /\ UserError("Unknown plugin")
        /\ exit = 1
        /\ freads = <<>>
        /\ NothingWritten

C14_Witness ==
    /\ inv # NoInv /\ inv.cmd = "run" /\ ~inv.dry
    /\ inv.plugin = <<73, 109, 97, 103, 101>>
    /\ Lower(inv.plugin) \in Registered
    /\ inv.pin.input \in DOMAIN files
    /\ exit = 1
    /\ stderr[2].msg = "Unknown plugin"

\* C15: in run and dump a producer that fails ends the command with an
\* error before a frame exists, and whenever run, dump or decode ends with
\* an error, nothing was put on standard output, no file was written and
\* the file system is as it was before the command.
C15_FailFast ==
    [][(inv' # NoInv /\ inv'.cmd \in {"run", "dump", "decode"}) =>
          /\ (/\ inv'.cmd \in {"run", "dump"}
              /\ get_plugin(inv'.plugin) # NoArg
              /\ InvokeProducer(get_plugin(inv'.plugin), files, inv'.pin).status # "ok")
             => exit' # 0
          /\ exit' # 0 =>
                /\ stdout' = <<>>
                /\ fwrites' = <<>>
                /\ files' = files]_vars

\* decode had printed the metadata of the frame when the payload failed to
\* decode; the output file it was given does not exist
C15_Witness ==
    /\ inv # NoInv /\ inv.cmd = "decode"
    /\ inv.verbose /\ ~inv.dry /\ ~inv.raw
    /\ inv.output = <<111, 46, 116, 120, 116>>
    /\ exit = 1
    /\ Len(stderr) = 7
    /\ stderr[1].msg = "Plugin"
    /\ stderr[7].msg = "Failed to decode payload: not valid UTF-8"
    /\ NothingWritten
    /\ inv.output \notin DOMAIN files

\* C16: every run, dump, decode or help that fails ends with a non-zero
\* exit status and, last on the error stream, click's "Error: <message>";
\* none ends by an exception that no handler caught.
C16_ErrorsAreReported ==
    (inv # NoInv /\ inv.cmd \in {"run", "dump", "decode", "help"} /\ exit # 0) =>
        /\ Len(stderr) >= 2
        /\ stderr[Len(stderr) - 1] = Echo("Error", 0, <<>>)
        /\ \A i \in 1..Len(stderr) : stderr[i].msg # "Traceback"

\* the file or stream video is pointed at: the positional FILE when given,
\* else --input
VideoSource(pin) == IF pin.file # NoArg THEN pin.file ELSE pin.input

\* the last command line ran video on a source that can be read
VideoRead ==
    /\ RunOrDump
    /\ inv.plugin = TextVideo
    /\ inv.pin.file # NoArg => inv.pin.file \in DOMAIN files
    /\ VideoSource(inv.pin) \in {Dash} \cup DOMAIN files

\* the bytes video reads
VideoData ==
    IF VideoSource(inv.pin) = Dash THEN inv.pin.stdin
    ELSE files[VideoSource(inv.pin)]

\* the frame that carries the bytes video read
VideoFrame ==
    <<ESC, RBRACKET>> \o NatToStr(VENDOR_ID) \o <<SEMI>> \o TextVideo \o <<SEMI>>
    \o inv.mode \o <<SEMI>> \o IntToStr(inv.pos[1]) \o <<SEMI>>
    \o IntToStr(inv.pos[2]) \o <<SEMI>> \o IntToStr(inv.pos[3]) \o <<SEMI>>
    \o IntToStr(inv.pos[4]) \o <<SEMI>> \o encode(VideoData) \o <<ESC, BACKSLASH>>

\* C20: run and dump of video end with the error "Empty video data", no
\* payload set and nothing written, whenever the bytes read from the file
\* or from stdin are empty; a file whose extension is no video extension
\* gets a warning on the error stream and nothing else: the payload is set
\* and the frame is written as for any other file.
C20_Video ==
    VideoRead =>
        /\ VideoData = <<>> =>
              /\ UserError("Empty video data")
              /\ exit = 1
              /\ Producer.payload_bytes = NoArg /\ Producer.payload = NoArg
              /\ NothingWritten
        /\ VideoData # <<>> =>
              /\ exit = 0
              /\ Producer.payload_bytes = VideoData
              /\ (inv.cmd = "run" /\ ~inv.dry) =>
                    stdout = <<Wr(IF tmux THEN wrap_for_tmux(VideoFrame)
                                  ELSE VideoFrame)>>
              /\ (inv.cmd = "dump" /\ ~inv.dry) =>
                    /\ Len(fwrites) = 1
                    /\ fwrites[1][2] = utf8(VideoFrame)
        /\ (/\ VideoSource(inv.pin) # Dash
            /\ Lower(Suffix(VideoSource(inv.pin))) \notin VIDEO_EXTENSIONS) =>
              /\ stderr # <<>>
              /\ stderr[1].msg = "Warning: Unknown extension"
              /\ \A i \in 1..Len(stdout) : stdout[i].msg # "Warning: Unknown extension"

\* "c.bin" is no video by its name: warned about, and sent
C20_Witness ==
    /\ VideoRead
    /\ inv.cmd = "run" /\ ~inv.dry /\ ~inv.verbose
    /\ VideoSource(inv.pin) = <<99, 46, 98, 105, 110>>
    /\ VideoData = <<0, 255>>
    /\ stderr = <<Echo("Warning: Unknown extension", 0, <<46, 98, 105, 110>>)>>
    /\ exit = 0
    /\ Writes(stdout) = {1}

----------------------------------------------------------------------------
(* The auxiliary argument string *)

\* the words joined by single spaces
RECURSIVE JoinSpace(_)
JoinSpace(words) ==
    IF Len(words) = 0 THEN <<>>
    ELSE IF Len(words) = 1 THEN words[1]
    ELSE words[1] \o <<32>> \o JoinSpace(Tail(words))

\* the words between the spaces of a string
Words(s) == Split(s, 32, Len(s))

YmeryRan == fn = "ymery" /\ ret.status = "ok"

\* C21 as stated: ymery yields no payload content, and every word of the
\* auxiliary argument string is a key=value pair.
C21_YmeryKeyValuePairs ==
    YmeryRan =>
        /\ ret.payload = <<>>
        /\ ret.payload_bytes = NoArg
        /\ \A i \in 1..Len(Words(ret.plugin_args)) :
              IndexOf(Words(ret.plugin_args)[i], 61) > 1

\* C21 amended: ymery yields the empty text payload and no payload bytes,
\* and the auxiliary argument string is the word "-p <path>" for each
\* layout path in the order given, then the word "-m <main>", joined by
\* single spaces.
C21_YmeryOptionWords ==
    YmeryRan =>
        LET layouts == arg[2].layouts
            words == [i \in 1..Len(layouts) |-> <<45, 112, 32>> \o layouts[i]]
                         \o <<<<45, 109, 32>> \o arg[2].main>>
        IN /\ ret.payload = <<>>
           /\ ret.payload_bytes = NoArg
           /\ ret.plugin_name = TextYmery
           /\ ret.plugin_args = JoinSpace(words)

C21_Witness ==
    /\ YmeryRan
    /\ arg[2].layouts = <<<<108>>, <<97, 61, 98>>>>
    /\ arg[2].main = <<109>>
    /\ ret.plugin_args = <<45, 112, 32, 108, 32, 45, 112, 32, 97, 61, 98, 32, 45, 109, 32, 109>>
    /\ ret.payload = <<>>

----------------------------------------------------------------------------
(* decode: the payload as text and as bytes *)

\* the frame in the file the decode command read, where it is a frame
DecodedFrame == ParseFile(freads[1][2])

\* the decode command read a frame and went on to decode its payload
DecodesPayload ==
    /\ inv.cmd = "decode"
    /\ ~inv.info
    /\ freads # <<>>
    /\ DecodedFrame.status = "ok"

\* the bytes the payload field of that frame stands for
PayloadBytes == decode(DecodedFrame.parts[8])

\* C22: decode without --raw, on a frame whose payload bytes are not valid
\* UTF-8, ends with exit status 1 and the message that the payload is not
\* valid UTF-8 on the error stream, and has written nothing to standard
\* output and to no file (with --info the payload is not decoded at all).
C22_DecodeRequiresText ==
    (/\ DecodesPayload
     /\ ~inv.raw
     /\ PayloadBytes.ok
     /\ ~Utf8Decode(PayloadBytes.val).ok)
    =>
    /\ exit = 1
    /\ stdout = <<>>
    /\ fwrites = <<>>
    /\ stderr[Len(stderr) - 1].msg = "Error"
    /\ stderr[Len(stderr)].msg = "Failed to decode payload: not valid UTF-8"
    /\ \A i \in 1..Len(stderr) : stderr[i].msg \notin {"Decoded", "Saved to"}

C22_Witness ==
    /\ DecodesPayload
    /\ ~inv.raw
    /\ inv.input_file = FBin
    /\ inv.output = FTxt
    /\ ~inv.dry
    /\ PayloadBytes.val = <<255>>
    /\ exit = 1
    /\ FTxt \notin DOMAIN files

\* the payload bytes of the producers that left a dump on disk, of the
\* frames on disk, and no bytes at all
OriginalPayloads ==
    {<<>>, <<255>>, <<26, 65>>, <<0, 26, 255>>, <<27, 120>>, <<195, 169>>,
     utf8(<<105, 110, 108, 105, 110, 101, 58, 120, 59>>)}

\* a successful decode put exactly b on standard output, or into the one
\* file it wrote
EmittedExactly(b) ==
    IF inv.output = NoArg
    THEN stdout = <<[k |-> "write", msg |-> "", n |-> Len(b), data |-> b]>>
            /\ fwrites = <<>>
    ELSE fwrites = <<<<inv.output, b>>>> /\ files[inv.output] = b
            /\ stdout = <<>>

\* C23: decode --raw (outside --dry-run and --info), on a frame whose
\* payload field is the encoding of the bytes b, ends with exit status 0
\* and has written exactly b, byte for byte, to standard output or to the
\* --output file and nowhere else; for the empty payload it writes zero
\* bytes.
C23_RawEmitsOriginal ==
    \A b \in OriginalPayloads :
        (/\ DecodesPayload
         /\ inv.raw
         /\ ~inv.dry
         /\ DecodedFrame.parts[8] = encode(b))
        => (exit = 0 /\ EmittedExactly(b))

C23_Witness ==
    /\ DecodesPayload
    /\ inv.raw
    /\ ~inv.dry
    /\ inv.output = NoArg
    /\ inv.input_file = FOut
    /\ DecodedFrame.parts[8] = encode(<<0, 26, 255>>)
    /\ stdout[1].data = <<0, 26, 255>>
    /\ exit = 0

\* decode --raw of the frame with the empty payload wrote a file of no bytes
C23_WitnessEmpty ==
    /\ DecodesPayload
    /\ inv.raw
    /\ ~inv.dry
    /\ inv.input_file = FEmpty
    /\ inv.output = FTxt
    /\ files[FTxt] = <<>>
    /\ exit = 0

----------------------------------------------------------------------------
(* Literal frames and code words *)

\* C24: create_sequence("shader", "R", 0, 0, 40, 20, "test") is exactly
\* ESC ] 99999;shader;R;0;0;40;20;"7"("6"7 ESC \ and that frame, parsed as
\* the decode command parses it, gives plugin "shader", mode "R", x 0, y 0,
\* w 40, h 20 and the text payload "test".
C24_Scenario ==
    (fn \in {"built", "parsed"} /\ arg = ScenarioInput) =>
        /\ ret.frame = <<27>> \o <<93, 57, 57, 57, 57, 57, 59, 115, 104, 97, 100, 101, 114, 59, 82, 59, 48, 59, 48, 59, 52, 48, 59, 50, 48, 59, 34, 55, 34, 40, 34, 54, 34, 55>> \o <<27, 92>>
        /\ fn = "parsed" =>
              /\ ret.p.status = "ok"
              /\ Len(ret.p.parts) = 8
              /\ ret.p.parts[2] = <<115, 104, 97, 100, 101, 114>>
              /\ ret.p.parts[3] = <<82>>
              /\ NumeralValue(ret.p.parts[4]) = 0
              /\ NumeralValue(ret.p.parts[5]) = 0
              /\ NumeralValue(ret.p.parts[6]) = 40
              /\ NumeralValue(ret.p.parts[7]) = 20
              /\ ret.dec.ok
              /\ Utf8Decode(ret.dec.val) = [ok |-> TRUE, text |-> <<116, 101, 115, 116>>]

C24_Witness ==
    /\ fn = "parsed"
    /\ arg = ScenarioInput
    /\ ret.p.parts[8] = <<34, 55, 34, 40, 34, 54, 34, 55>>
    /\ ret.dec.val = <<116, 101, 115, 116>>

\* C25: encode of the byte 0 is "!!", of 65 "!b", of 94 '"' '!', of 255
\* "#d", and the i-th byte v of any input gives the characters
\* chr(33 + v div 94) and chr(33 + v mod 94) at places 2i-1 and 2i.
C25_CodecVectors ==
    fn = "encode" =>
        /\ arg = <<0>> => ret = <<33, 33>>
        /\ arg = <<65>> => ret = <<33, 98>>
        /\ arg = <<94>> => ret = <<34, 33>>
        /\ arg = <<255>> => ret = <<35, 100>>
        /\ Len(ret) = 2 * Len(arg)
        /\ \A i \in 1..Len(arg) :
              /\ ret[2 * i - 1] = 33 + (arg[i] \div 94)
              /\ ret[2 * i] = 33 + (arg[i] % 94)

C25_Witness ==
    /\ fn = "encode"
    /\ arg = <<94>>
    /\ ret = <<34, 33>>

----------------------------------------------------------------------------
(* Terminators and prefixes *)

\* the two terminators and the two prefixes of a frame
Terminators == {<<7>>, <<27, 92>>}
Prefixes == {<<27, 93>>, <<93>>}

\* C26: of a file that holds a prefix (ESC ']' or ']'), a body and a
\* terminator (BEL or ESC '\'), the decode command keeps the body and
\* nothing else, also when the body itself ends like a terminator or
\* starts like a prefix; the fields it finds are those it finds for each
\* of the other forms of prefix and terminator around the same body.
C26_OneTerminatorOnePrefix ==
    fn = "parsed_raw" =>
        \A pre \in Prefixes, term \in Terminators, body \in RawBodies :
            arg.payload = pre \o body \o term =>
                /\ ret.p.status # "no_prefix"
                /\ ret.p.content = body
                /\ \A pre2 \in Prefixes, term2 \in Terminators :
                      LET other == ParseFile(utf8(pre2 \o body \o term2)) IN
                      /\ other.status = ret.p.status
                      /\ other.parts = ret.p.parts

C26_Witness ==
    /\ fn = "parsed_raw"
    /\ arg.payload = <<93>> \o <<57, 57, 57, 57, 57, 59, 97, 59, 97, 59, 97, 59, 97, 59, 97, 59, 97, 59, 33, 33>> \o <<7, 7>>
    /\ ret.p.status = "ok"
    /\ ret.p.parts[8] = <<33, 33, 7>>
    /\ ret.p.parts = ParseFile(utf8(<<27, 93>> \o <<57, 57, 57, 57, 57, 59, 97, 59, 97, 59, 97, 59, 97, 59, 97, 59, 97, 59, 33, 33>> \o <<7, 27, 92>>)).parts

----------------------------------------------------------------------------
(* python: how the payload is tagged *)

\* C27: python given inline code c alone takes "inline:" and c, given
\* --input '-' alone takes "inline:" and the text on stdin, given the path
\* of a file alone takes the absolute path of the file, which does not
\* start with "inline:", and given a path that does not exist fails with a
\* validation error and sets no payload.
C27_PythonTagging ==
    fn = "python" =>
        LET pin == arg[2]
            c == Utf8Decode(pin.stdin)
            path == pin.input \notin {NoArg, Dash, <<>>}
        IN /\ (pin.input = NoArg /\ pin.inline # NoArg) =>
                 (ret.status = "ok" /\ ret.payload = <<105, 110, 108, 105, 110, 101, 58>> \o pin.inline)
           /\ (pin.input = Dash /\ pin.inline = NoArg /\ c.ok) =>
                 (ret.status = "ok" /\ ret.payload = <<105, 110, 108, 105, 110, 101, 58>> \o c.text)
           /\ (path /\ pin.inline = NoArg /\ pin.input \in DOMAIN files) =>
                 /\ ret.status = "ok"
                 /\ ret.payload = <<47, 119, 47>> \o pin.input
                 /\ ~StartsWith(ret.payload, <<105, 110, 108, 105, 110, 101, 58>>)
           /\ (path /\ pin.inline = NoArg /\ pin.input \notin DOMAIN files) =>
                 ValidationError(ret)

----------------------------------------------------------------------------
(* decode on the characters '!'..'~' *)

\* an input of even length made of the characters '!'..'~'
PrintablePairs(s) ==
    Len(s) % 2 = 0 /\ \A i \in 1..Len(s) : s[i] \in 33..126

\* the number the i-th pair of characters stands for
PairValue(s, i) == (s[2 * i - 1] - 33) * 94 + (s[2 * i] - 33)

\* the result is len/2 values, the i-th the number of the i-th pair
DecodedPairs ==
    /\ ret.ok
    /\ Len(ret.val) = Len(arg) \div 2
    /\ \A i \in 1..(Len(arg) \div 2) : ret.val[i] = PairValue(arg, i)

\* C28 as stated: decode succeeds on every input of even length made of
\* the characters '!'..'~' and returns len/2 bytes, the i-th being
\* (c1-33)*94 + (c2-33) for the i-th pair (c1, c2).
C28_DecodeEveryPair ==
    (fn = "decode" /\ PrintablePairs(arg)) => DecodedPairs

\* C28 amended: on such an input decode returns those len/2 bytes when
\* every pair stands for a number up to 255, and raises ValueError when
\* some pair stands for a larger number.
C28_DecodeBytePairs ==
    (fn = "decode" /\ PrintablePairs(arg)) =>
        IF \A i \in 1..(Len(arg) \div 2) : PairValue(arg, i) <= 255
        THEN DecodedPairs
        ELSE ~ret.ok /\ ret.exc = "ValueError"

C28_Witness ==
    /\ fn = "decode"
    /\ arg = <<35, 100, 33, 33>>
    /\ ret.ok
    /\ ret.val = <<255, 0>>

----------------------------------------------------------------------------
(* The auxiliary outputs of a producer and the frame *)

\* command lines that differ from a only in the options a producer turns
\* into its auxiliary outputs: the channels of shadertoy, the layout paths
\* and main entry of ymery, --loop/--no-loop of video
AuxVariants(a) ==
    IF a.plugin = TextShadertoy
    THEN {[a EXCEPT !.pin.channels = ch] :
             ch \in {<<NoArg, NoArg, NoArg, NoArg>>, <<FTex, NoArg, NoArg, NoArg>>,
                     <<NoArg, FImg, NoArg, FMissing>>}}
    ELSE IF a.plugin = TextYmery
    THEN {[a EXCEPT !.pin.layouts = l, !.pin.main = m] :
             l \in {<<<<108>>>>, <<<<97>>, <<98>>>>}, m \in {<<109>>, <<120>>}}
    ELSE IF a.plugin = TextVideo
    THEN {[a EXCEPT !.pin.loop = lp] : lp \in BOOLEAN}
    ELSE {a}

\* the payload bytes in the frame run writes for the last command line
\* when no multiplexer is signalled
FramePayload ==
    LET frame == cmd_run(FALSE, files, [inv EXCEPT !.cmd = "run", !.dry = FALSE]).out[1].data
    IN decode(ParseFrame(frame).parts[8]).val

\* C29: a run or dump that succeeded would have put the same on standard
\* output and into the same file, byte for byte, had the producer been
\* given other channels, other layout paths and main entry, or the other
\* loop flag; and the payload in the frame does not hold the producer's
\* auxiliary argument string.
C29_FrameIgnoresAux ==
    (RunOrDump /\ exit = 0) =>
        /\ \A a2 \in AuxVariants(inv) :
              LET r2 == Run(tmux, files, a2) IN
              /\ r2.exit = 0
              /\ r2.out = stdout
              /\ r2.fw = fwrites
        /\ Producer.plugin_args \notin {NoArg, <<>>} =>
              ~Contains(FramePayload, utf8(Producer.plugin_args))

C29_Witness ==
    /\ inv # NoInv
    /\ inv.cmd = "run"
    /\ exit = 0
    /\ ~inv.dry
    /\ inv.plugin = TextShadertoy
    /\ Producer.plugin_args = <<45, 45, 99, 104, 97, 110, 110, 101, 108, 48, 61, 47, 119, 47, 116, 46, 112, 110, 103>>
    /\ InvokeProducer(TextShadertoy, files,
                      [inv.pin EXCEPT !.channels = <<NoArg, FImg, NoArg, FMissing>>]).plugin_args
          = <<45, 45, 99, 104, 97, 110, 110, 101, 108, 49, 61, 47, 119, 47, 105, 46, 112, 110, 103, 32, 45, 45, 99, 104, 97, 110, 110, 101, 108, 51, 61, 47, 119, 47, 109, 46, 111, 115, 99>>
    /\ stdout = Run(tmux, files, [inv EXCEPT !.pin.channels = <<NoArg, FImg, NoArg, FMissing>>]).out
    /\ FramePayload = <<195, 169>>

\* a run of video with --no-loop wrote the frame it writes with --loop
C29_WitnessLoop ==
    /\ inv # NoInv
    /\ inv.cmd = "dump"
    /\ exit = 0
    /\ ~inv.dry
    /\ inv.plugin = TextVideo
    /\ ~inv.pin.loop
    /\ Producer.loop = FALSE
    /\ fwrites = Run(tmux, files, [inv EXCEPT !.pin.loop = TRUE]).fw

----------------------------------------------------------------------------
(* The frame around the payload *)

\* the bytes the payload of the frame built last was given as
GivenPayloadBytes ==
    IF arg.kind = "bytes" THEN arg.payload ELSE utf8(arg.payload)

HasPayload == arg.kind \in {"text", "bytes", "update"}

\* the payload field of the frame built last: the characters before the
\* terminator, two for each byte of the payload
PayloadField ==
    SubSeq(ret.frame, Len(ret.frame) - 1 - 2 * Len(GivenPayloadBytes),
           Len(ret.frame) - 2)

\* C30: every frame built by create_sequence, create_update_sequence,
\* create_delete_sequence, create_query_sequence and on the byte path of
\* run begins with ESC ']' 99999 ';' and ends with ESC '\'; its payload
\* field holds characters of '!'..'~' only, is preceded by a ';', and
\* the parser's stripping of newlines and of one terminator takes off the
\* closing ESC '\' and nothing of the payload field.
C30_Framing ==
    fn = "built" =>
        /\ StartsWith(ret.frame, <<27>> \o <<93, 57, 57, 57, 57, 57, 59>>)
        /\ EndsWith(ret.frame, <<27, 92>>)
        /\ HasPayload =>
              /\ Len(ret.frame) >= 8 + 2 + 2 * Len(GivenPayloadBytes)
              /\ \A i \in 1..Len(PayloadField) :
                    /\ PayloadField[i] \in 33..126
                    /\ PayloadField[i] \notin {27, 7, 13, 10}
              /\ ret.frame[Len(ret.frame) - 2 - Len(PayloadField)] = 59
              /\ StripTerminator(RStripNewlines(ret.frame))
                    = SubSeq(ret.frame, 1, Len(ret.frame) - 2)
              /\ EndsWith(StripTerminator(RStripNewlines(ret.frame)), PayloadField)

C30_Witness ==
    /\ fn = "built"
    /\ arg.kind = "update"
    /\ arg.payload = <<27, 0>>
    /\ arg.id = 42
    /\ ret.frame = <<27>> \o <<93, 57, 57, 57, 57, 57, 59, 105, 109, 97, 103, 101, 59, 85, 59, 52, 50, 59, 33, 60, 33, 33>> \o <<27, 92>>
    /\ PayloadField = <<33, 60, 33, 33>>

====
